---------------------------- MODULE Spec2Model ----------------------------
(***************************************************************************)
(* A model of the document transformation pipeline of iidy's src/index.ts: *)
(* parseImportType, the import loader, loadImports, the tree-walking       *)
(* evaluator (visitNode and the visitors it dispatches to), the template   *)
(* expander and transformPostImports.                                      *)
(*                                                                         *)
(* Documents are values tagged by kind; strings are TLA+ strings, so the   *)
(* string tests of the source (indexOf, startsWith, split, the {{..}}      *)
(* search) are computed on the characters.  A JavaScript object is an      *)
(* ordered sequence of <<key, value>> pairs: insertion order is what       *)
(* `for .. in`, _.toPairs and _.merge see.                                 *)
(***************************************************************************)
EXTENDS Integers, Sequences, FiniteSets, TLC

\* ------------------------------------------------------------------ bounds

\* Nesting of loadImports calls the model follows (the code has no limit).
MaxDepth == 3

\* ----------------------------------------------------------------- strings

Min(S) == CHOOSE x \in S : \A y \in S : x <= y

\* String.prototype.indexOf: 0-based position of the first occurrence, or -1.
IndexOf(s, sub) ==
  LET hits == {i \in 1..(Len(s) - Len(sub) + 1) : SubSeq(s, i, i + Len(sub) - 1) = sub}
  IN IF hits = {} THEN -1 ELSE Min(hits) - 1

\* indexOf with a start position (0-based).
IndexFrom(s, sub, from) ==
  LET hits == {i \in (from + 1)..(Len(s) - Len(sub) + 1) : SubSeq(s, i, i + Len(sub) - 1) = sub}
  IN IF hits = {} THEN -1 ELSE Min(hits) - 1

StartsWith(s, p) == Len(s) >= Len(p) /\ SubSeq(s, 1, Len(p)) = p

EndsWith(s, p) == Len(s) >= Len(p) /\ SubSeq(s, Len(s) - Len(p) + 1, Len(s)) = p

\* s.slice(n): s without its first n characters.
Drop(s, n) == SubSeq(s, n + 1, Len(s))

RECURSIVE Split(_, _)
\* String.prototype.split with a one-character separator.
Split(s, sep) ==
  LET i == IndexOf(s, sep)
  IN IF i = -1 THEN <<s>>
     ELSE <<SubSeq(s, 1, i)>> \o Split(Drop(s, i + 1), sep)

UpperChars == "ABCDEFGHIJKLMNOPQRSTUVWXYZ"
LowerChars == "abcdefghijklmnopqrstuvwxyz"

RECURSIVE ToLowerCase(_)
\* String.prototype.toLowerCase on the ASCII letters.
ToLowerCase(s) ==
  IF s = "" THEN ""
  ELSE LET c == SubSeq(s, 1, 1)
           i == IndexOf(UpperChars, c)
       IN (IF i = -1 THEN c ELSE SubSeq(LowerChars, i + 1, i + 1)) \o ToLowerCase(Drop(s, 1))

\* The last element of a sequence (Array.prototype.pop's result).
Last(q) == q[Len(q)]

\* ------------------------------------------------------------------ values

Undef == [t |-> "undef"]
Str(s) == [t |-> "str", s |-> s]
Num(n) == [t |-> "num", n |-> n]
Bool(b) == [t |-> "bool", b |-> b]
\* A Date scalar, kept as its ISO rendering (toISOString()).
Date(iso) == [t |-> "date", iso |-> iso]
Map(kv) == [t |-> "map", kv |-> kv]
List(items) == [t |-> "seq", items |-> items]
\* An instance of yaml.Tag: the tag kind and its .data payload.
Tag(kind, data) == [t |-> "tag", tag |-> kind, data |-> data]
\* A thrown Error, propagated as the value of the evaluation it aborts.
Err(msg) == [t |-> "err", msg |-> msg]

IsErr(v) == v.t = "err"
IsMap(v) == v.t = "map"
IsSeq(v) == v.t = "seq"
IsStr(v) == v.t = "str"
IsTag(v) == v.t = "tag"
IsUndef(v) == v.t = "undef"
\* _.isObject: true of objects, arrays, tags and dates.
IsObject(v) == v.t \in {"map", "seq", "tag", "date"}

\* JavaScript truthiness, as in `if (doc.$imports)`.
Truthy(v) ==
  CASE v.t = "undef" -> FALSE
    [] v.t = "str" -> v.s # ""
    [] v.t = "num" -> v.n # 0
    [] v.t = "bool" -> v.b
    [] OTHER -> TRUE

EmptyMap == Map(<<>>)

KeysOf(m) == [i \in 1..Len(m.kv) |-> m.kv[i][1]]
KeySet(m) == {m.kv[i][1] : i \in 1..Len(m.kv)}
HasKey(m, k) == IsMap(m) /\ k \in KeySet(m)

\* obj[k]: undefined for a missing key and for a value that is no mapping.
Get(m, k) ==
  IF HasKey(m, k)
  THEN m.kv[CHOOSE i \in 1..Len(m.kv) : m.kv[i][1] = k][2]
  ELSE Undef

\* obj[k] = v: an existing key keeps its position, a new key is appended.
Put(m, k, v) ==
  IF HasKey(m, k)
  THEN Map([i \in 1..Len(m.kv) |-> IF m.kv[i][1] = k THEN <<k, v>> ELSE m.kv[i]])
  ELSE Map(Append(m.kv, <<k, v>>))

\* delete obj[k].
Del(m, k) == Map(SelectSeq(m.kv, LAMBDA p : p[1] # k))

RECURSIVE GetPath(_, _)
\* _.get(value, path) for a path of keys (a sequence index is a decimal key).
GetPath(v, sel) ==
  IF Len(sel) = 0 THEN v
  ELSE IF IsMap(v) THEN GetPath(Get(v, Head(sel)), Tail(sel))
  ELSE IF IsSeq(v)
       THEN LET hit == {i \in 1..Len(v.items) : ToString(i - 1) = Head(sel)}
            IN IF hit = {} THEN Undef
               ELSE GetPath(v.items[CHOOSE i \in hit : TRUE], Tail(sel))
  ELSE Undef


\* ------------------------------------------------------------ lodash merge

RECURSIVE MergeInto(_, _)
RECURSIVE MergeKV(_, _, _)
RECURSIVE MergeValue(_, _)
RECURSIVE MergeItems(_, _, _)

\* baseMergeDeep / assignMergeValue: what object[key] becomes when a source
\* holds sv under a key where the object holds ov.  Plain objects merge key by
\* key, arrays index by index, anything else (scalars, tags, dates) replaces;
\* an undefined source value never overwrites.
MergeValue(ov, sv) ==
  CASE IsUndef(sv) -> ov
    [] IsMap(sv) -> IF IsMap(ov) THEN MergeInto(ov, sv)
                    ELSE IF IsObject(ov) THEN ov
                    ELSE MergeInto(EmptyMap, sv)
    [] IsSeq(sv) -> IF IsSeq(ov) THEN List(MergeItems(ov.items, sv.items, 1))
                    ELSE List(MergeItems(<<>>, sv.items, 1))
    [] OTHER -> sv

MergeItems(os, ss, i) ==
  IF i > Len(ss) THEN SubSeq(os, i, Len(os))
  ELSE <<MergeValue(IF i <= Len(os) THEN os[i] ELSE Undef, ss[i])>> \o MergeItems(os, ss, i + 1)

MergeKV(obj, kv, i) ==
  IF i > Len(kv) THEN obj
  ELSE LET k == kv[i][1]
           nv == MergeValue(Get(obj, k), kv[i][2])
       IN MergeKV(IF IsUndef(nv) /\ HasKey(obj, k) THEN obj ELSE Put(obj, k, nv), kv, i + 1)

\* _.merge(obj, src) for an object obj: a source that is no mapping
\* (undefined, a scalar) contributes nothing.
MergeInto(obj, src) == IF IsMap(src) THEN MergeKV(obj, src.kv, 1) ELSE obj

\* _.merge(a, b, c) and _.merge(a, b, c, d)
Merge3(a, b, c) == MergeInto(MergeInto(a, b), c)
Merge4(a, b, c, d) == MergeInto(Merge3(a, b, c), d)

\* --------------------------------------------------------- parseImportType

importTypes ==
  <<"ssm", "ssm-path", "file", "s3", "http", "env", "git", "random", "filehash", "literal">>
localOnlyImportTypes == <<"file", "env">>
gitValues == <<"branch", "describe", "sha">>

\* _.includes on an array of strings
Includes(arr, x) == \E i \in 1..Len(arr) : arr[i] = x

\* The scheme a location names: the text before its first ':', lower-cased,
\* or "file" when it holds no ':'.
SchemeOf(location) ==
  IF IndexOf(location, ":") > -1 THEN Split(ToLowerCase(location), ":")[1] ELSE "file"

\* parseImportType without the cross-check of local-only types.
parseImportTypeNoCrossCheck(location, baseLocation) ==
  LET hasExplicitType == IndexOf(location, ":") > -1
      importType == SchemeOf(location)
      baseImportType == SchemeOf(baseLocation)
  IN IF Includes(<<"s3", "http">>, baseImportType)
     THEN IF ~hasExplicitType THEN Str(baseImportType) ELSE Str(importType)
     ELSE IF Includes(importTypes, importType) THEN Str(importType)
     ELSE Err("Unknown import type " \o location \o " in " \o baseLocation)

parseImportType(location, baseLocation) ==
  LET hasExplicitType == IndexOf(location, ":") > -1
      importType == SchemeOf(location)
      baseImportType == SchemeOf(baseLocation)
  IN IF Includes(<<"s3", "http">>, baseImportType)
     THEN IF ~hasExplicitType THEN Str(baseImportType)
          ELSE IF Includes(localOnlyImportTypes, importType)
          THEN Err("Import type " \o location \o " in " \o baseLocation
                   \o " not allowed from remote template")
          ELSE Str(importType)
     ELSE IF Includes(importTypes, importType) THEN Str(importType)
     ELSE Err("Unknown import type " \o location \o " in " \o baseLocation)


\* ------------------------------------------------- the world of one run
\* What the loader reads: files, S3 objects, HTTP resources (each a raw
\* data string under its resolved location), the process environment and the
\* git work tree; and the structured-document codec, which is no part of
\* index.ts: a table from the raw texts to the documents they parse to.

\* The template of spec scenario S4: one parameter N, one resource R.
DocT ==
  Map(<< <<"$params", List(<< Map(<< <<"Name", Str("N")>> >>) >>)>>,
         <<"Resources", Map(<< <<"R", Map(<< <<"Type", Str("AWS::X")>>,
              <<"Properties", Map(<< <<"V", Str("{{N}}")>>, <<"Self", Tag("Ref", Str("R"))>> >>)>> >>)>> >>)>>,
         <<"Outputs", Map(<< <<"O", Map(<< <<"Value", Tag("Ref", Str("R"))>> >>)>> >>)>> >>)

\* A template that declares AllowedValues (S5) and a default.
DocTV ==
  Map(<< <<"$params", List(<< Map(<< <<"Name", Str("N")>>,
              <<"AllowedValues", List(<<Str("a"), Str("b")>>)>> >>),
            Map(<< <<"Name", Str("M")>>, <<"Default", Str("dm")>> >>) >>)>>,
         <<"Resources", Map(<< <<"R", Map(<< <<"Type", Str("AWS::X")>>,
              <<"Properties", Map(<< <<"V", Str("{{N}}{{M}}")>> >>)>> >>)>> >>)>> >>)

\* A template that imports DocT and expands it inside its own Resources.
DocOuter ==
  Map(<< <<"$imports", Map(<< <<"T", Str("t.yaml")>> >>)>>,
         <<"$params", List(<<>>)>>,
         <<"Resources", Map(<< <<"inner", Map(<< <<"Type", Str("T")>>,
              <<"Properties", Map(<< <<"N", Str("n")>> >>)>> >>)>>,
            <<"Q", Map(<< <<"Type", Str("Custom::Q")>> >>)>> >>)>>,
         <<"Parameters", Map(<< <<"P1", Map(<< <<"Type", Str("String")>> >>)>> >>)>> >>)

\* An imported document with its own $defs scope.
DocA ==
  Map(<< <<"$defs", Map(<< <<"x", Str("ax")>> >>)>>,
         <<"v", Str("{{x}}")>>,
         <<"sub", Map(<< <<"w", Str("{{x}}")>> >>)>> >>)

\* An imported document that declares neither $imports nor $defs.
DocPlain == Map(<< <<"v", Str("{{x}}")>>, <<"k", Num(1)>> >>)

\* An imported document that imports DocA and refers to it.
DocB ==
  Map(<< <<"$imports", Map(<< <<"a", Str("a.yaml")>> >>)>>,
         <<"fromA", Tag("$include", Str("a.v"))>> >>)

\* A document that imports itself.
DocSelf == Map(<< <<"$imports", Map(<< <<"me", Str("self.yaml")>> >>)>>, <<"k", Num(1)>> >>)

\* A document of plain data.
DocData == Map(<< <<"xs", List(<<Num(1), Num(2)>>)>>, <<"name", Str("d")>> >>)

\* A template with every global section.
DocG ==
  Map(<< <<"$params", List(<<>>)>>,
         <<"Resources", Map(<< <<"R", Map(<< <<"Type", Str("AWS::X")>> >>)>> >>)>>,
         <<"Parameters", Map(<< <<"P", Map(<< <<"Type", Str("String")>> >>)>> >>)>>,
         <<"Metadata", Map(<< <<"Note", Map(<< <<"by", Str("{{Prefix}}")>> >>)>> >>)>>,
         <<"Mappings", Map(<< <<"Mp", Map(<< <<"a", Num(1)>> >>)>> >>)>>,
         <<"Conditions", Map(<< <<"Cn", Bool(TRUE)>> >>)>>,
         <<"Transform", Map(<< <<"Tr", Str("AWS::Serverless")>> >>)>>,
         <<"Outputs", Map(<< <<"O", Map(<< <<"Value", Tag("Ref", Str("R"))>> >>)>> >>)>> >>)

\* <<resolved location, raw data, parsed document>>
Contents ==
  << <<"/r/t.yaml", "yaml:T", DocT>>,
     <<"/r/tv.yaml", "yaml:TV", DocTV>>,
     <<"/r/outer.yaml", "yaml:Outer", DocOuter>>,
     <<"/r/a.yaml", "yaml:A", DocA>>,
     <<"/r/plain.yaml", "yaml:Plain", DocPlain>>,
     <<"/r/b.yaml", "yaml:B", DocB>>,
     <<"/r/self.yaml", "yaml:Self", DocSelf>>,
     <<"/r/data.json", "json:Data", DocData>>,
     <<"/r/note.txt", "dup", Str("dup")>>,
     <<"/r/dev.yaml", "yaml:Dev", Map(<< <<"k", Str("dev")>> >>)>>,
     <<"/r/g.yaml", "yaml:G", DocG>>,
     <<"s3://bkt/d/a.yaml", "yaml:A", DocA>>,
     <<"s3://bkt/d/data.json", "json:Data", DocData>>,
     <<"http://h/d/plain.yaml", "yaml:Plain", DocPlain>> >>

ContentAt(loc) ==
  LET hit == {i \in 1..Len(Contents) : Contents[i][1] = loc}
  IN IF hit = {} THEN Undef
     ELSE Str(Contents[CHOOSE i \in hit : TRUE][2])

\* yaml.loadString / JSON.parse: the document a raw text parses to.
ParseData(data) ==
  LET hit == {i \in 1..Len(Contents) : Contents[i][2] = data}
  IN IF hit = {} THEN Err("parse error: " \o data)
     ELSE Contents[CHOOSE i \in hit : TRUE][3]

\* process.env
ProcessEnv == Map(<< <<"HOME", Str("/home/u")>>, <<"STAGE", Str("dev")>> >>)

\* The outputs of the three git commands in the work tree.
GitOutput == Map(<< <<"branch", Str("master")>>, <<"describe", Str("v1-dirty")>>, <<"sha", Str("abc123")>> >>)

\* process.cwd()
Cwd == "/cwd"

\* ------------------------------------------------------------- the loader

\* crypto's SHA-256 hex digest: a function of the text alone.
sha256Digest(content) == "sha256(" \o content \o ")"

\* String.prototype.replace(from, to) with a string pattern: the first
\* occurrence only.
ReplaceFirst(s, from, to) ==
  LET i == IndexOf(s, from)
  IN IF i = -1 THEN s ELSE SubSeq(s, 1, i) \o to \o Drop(s, i + Len(from))

\* path.dirname
Dirname(path) ==
  LET parts == Split(path, "/")
      n == Len(path) - Len(Last(parts)) - 1
  IN IF Len(parts) = 1 THEN "."
     ELSE IF n = 0 THEN "/"
     ELSE SubSeq(path, 1, n)

\* path.join(dir, rel) for a relative path without '.' or '..' segments.
PathJoin(dir, rel) == IF EndsWith(dir, "/") THEN dir \o rel ELSE dir \o "/" \o rel

\* path.resolve(dir, location) for paths without '.' or '..' segments.
PathResolve(dir, location) ==
  IF StartsWith(location, "/") THEN location
  ELSE IF StartsWith(dir, "/") THEN PathJoin(dir, location)
  ELSE IF dir = "." THEN PathJoin(Cwd, location)
  ELSE PathJoin(PathJoin(Cwd, dir), location)

\* path.extname of the location (of its path, for a URL).
Extname(location) ==
  LET base == Last(Split(location, "/"))
      parts == Split(base, ".")
  IN IF Len(parts) = 1 THEN "" ELSE "." \o Last(parts)

resolveDocFromImportData(data, location) ==
  LET ext == Extname(location)
  IN IF Includes(<<".yaml", ".yml">>, ext) THEN ParseData(data)
     ELSE IF ext = ".json" THEN ParseData(data)
     ELSE Str(data)

ImportData(importType, resolvedLocation, data, doc) ==
  [t |-> "import", importType |-> importType, resolvedLocation |-> resolvedLocation,
   data |-> data, doc |-> doc]

\* The part of a location after its n-th ':' (split(':')[n]), undefined
\* when there are fewer.
Field(location, n) ==
  LET parts == Split(location, ":")
  IN IF Len(parts) > n THEN Str(parts[n + 1]) ELSE Undef

\* A fetched text, decoded by its location's extension.
Fetched(importType, resolvedLocation, missing) ==
  LET body == ContentAt(resolvedLocation)
  IN IF IsUndef(body) THEN Err(missing)
     ELSE LET doc == resolveDocFromImportData(body.s, resolvedLocation)
          IN IF IsErr(doc) THEN doc
             ELSE ImportData(importType, resolvedLocation, body.s, doc)

\* The switch of readFromImportLocation on the import type ty.  rnd is what
\* the random-name generator and Math.random return on this call.  The
\* parameter store is not reachable in the modelled runs, so an ssm read is
\* rejected.
readAs(ty, location, baseLocation, rnd) ==
  IF IsErr(ty) THEN ty
  ELSE CASE ty.s \in {"ssm", "ssm-path"} ->
              Err("ssm: request rejected")
         [] ty.s = "s3" ->
              LET resolvedLocation ==
                    IF IndexOf(location, "s3:") = 0 THEN location
                    ELSE "s3:/" \o PathJoin(Dirname(ReplaceFirst(baseLocation, "s3:/", "")), location)
              IN IF StartsWith(resolvedLocation, "s3://")
                    /\ IndexOf(Drop(resolvedLocation, 5), "/") > 0
                 THEN Fetched("s3", resolvedLocation,
                              "NoSuchKey: " \o resolvedLocation)
                 ELSE Err("Invalid s3 uri " \o location \o " under " \o baseLocation)
         [] ty.s = "http" ->
              Fetched("http", location, "RequestError: " \o location)
         [] ty.s = "env" ->
              LET name == Field(location, 1)
                  defVal == Field(location, 2)
                  data == IF IsStr(name) /\ HasKey(ProcessEnv, name.s)
                          THEN Get(ProcessEnv, name.s) ELSE defVal
              IN IF IsUndef(data)
                 THEN Err("Env-var " \o (IF IsStr(name) THEN name.s ELSE "undefined")
                          \o " not found from " \o baseLocation)
                 ELSE ImportData("env", name.s, data.s, data)
         [] ty.s = "git" ->
              LET what == Field(location, 1)
              IN IF IsStr(what) /\ Includes(gitValues, what.s)
                 THEN ImportData("git", what.s, Get(GitOutput, what.s).s, Get(GitOutput, what.s))
                 ELSE Err("Invalid git command: " \o location)
         [] ty.s = "random" ->
              LET what == Field(location, 1)
              IN IF IsStr(what) /\ what.s \in {"dashed-name", "name", "int"}
                 THEN ImportData("random", what.s, rnd, Str(rnd))
                 ELSE Err("Invalid random type in " \o location \o " at " \o baseLocation)
         [] ty.s = "filehash" ->
              LET resolvedLocation == PathResolve(Dirname(baseLocation), Field(location, 1).s)
                  body == ContentAt(resolvedLocation)
              IN IF IsUndef(body)
                 THEN Err("Invalid location " \o resolvedLocation \o " for filehash in " \o baseLocation)
                 ELSE ImportData("filehash", resolvedLocation, sha256Digest(body.s),
                                 Str(sha256Digest(body.s)))
         [] ty.s = "literal" ->
              LET text == Field(location, 1)
              IN ImportData("literal", text.s, text.s, text)
         [] ty.s = "file" ->
              Fetched("file",
                      PathResolve(Dirname(ReplaceFirst(baseLocation, "file:", "")),
                                  ReplaceFirst(location, "file:", "")),
                      "ENOENT: " \o location)
         [] OTHER ->
              \* no case of the switch: the function returns undefined and
              \* the caller's importData.doc throws
              Err("TypeError: Cannot read property 'doc' of undefined")

readFromImportLocation(location, baseLocation, rnd) ==
  readAs(parseImportType(location, baseLocation), location, baseLocation, rnd)


\* ----------------------------------------------------------- interpolation

RECURSIVE Trim(_)
\* String.prototype.trim on blanks.
Trim(s) ==
  IF StartsWith(s, " ") /\ Len(s) > 0 THEN Trim(Drop(s, 1))
  ELSE IF EndsWith(s, " ") /\ Len(s) > 0 THEN Trim(SubSeq(s, 1, Len(s) - 1))
  ELSE s

\* node.search(/{{(.*?)}}/) > -1: an opening {{ with a closing }} after it.
HasMustache(s) ==
  LET i == IndexOf(s, "{{")
  IN i > -1 /\ IndexFrom(s, "}}", i + 2) > -1

RECURSIVE JoinItems(_, _)
RECURSIVE ToText(_)
\* What a compiled template writes for a value ({noEscape: true}): the
\* value's string conversion.
ToText(v) ==
  CASE v.t = "str" -> v.s
    [] v.t = "num" -> ToString(v.n)
    [] v.t = "bool" -> IF v.b THEN "true" ELSE "false"
    [] v.t = "date" -> v.iso
    [] v.t = "seq" -> JoinItems(v.items, 1)
    [] v.t = "undef" -> ""
    [] OTHER -> "[object Object]"

JoinItems(items, i) ==
  IF i > Len(items) THEN ""
  ELSE ToText(items[i]) \o (IF i < Len(items) THEN "," ELSE "") \o JoinItems(items, i + 1)

RECURSIVE RenderTemplate(_, _)
\* template(env) of handlebars.compile(templateString, {strict: true}) for a
\* template of text and {{path}} expressions.  The result is <<TRUE, text>>,
\* or <<FALSE, message>> for a throw (a name that is not defined under
\* strict, an expression that is not closed).
RenderTemplate(s, env) ==
  LET i == IndexOf(s, "{{")
  IN IF i = -1 THEN <<TRUE, s>>
     ELSE LET j == IndexFrom(s, "}}", i + 2)
          IN IF j = -1 THEN <<FALSE, "Parse error">>
             ELSE LET expr == Trim(SubSeq(s, i + 3, j))
                      val == GetPath(env, Split(expr, "."))
                      rest == RenderTemplate(Drop(s, j + 2), env)
                  IN IF IsUndef(val) THEN <<FALSE, "\"" \o expr \o "\" not defined">>
                     ELSE IF ~rest[1] THEN rest
                     ELSE <<TRUE, SubSeq(s, 1, i) \o ToText(val) \o rest[2]>>

interpolateHandlebarsString(templateString, env, errorContext) ==
  LET r == RenderTemplate(templateString, env)
  IN IF r[1] THEN Str(r[2])
     ELSE Err("Error in string template at " \o errorContext \o ": " \o r[2])


\* --------------------------------------------------------------- evaluator
\* The evaluator reads env.$envValues and writes env.GlobalAccumulator; the
\* Stack of an Env only feeds log messages.  A visitor takes the $envValues
\* as env and the accumulator as g, and returns the value with the
\* accumulator as the visit left it.

R(v, g) == [v |-> v, g |-> g]

\* What a caller does with a visitor's return r: a throw leaves through the
\* caller as well, anything else is handed to K, the rest of the caller.
Then(r, K(_)) == IF IsErr(r.v) THEN r ELSE K(r)

\* The same for a value computed without a visit, the accumulator being g.
ThenValue(v, g, K(_)) == IF IsErr(v) THEN R(v, g) ELSE K(v)

appendPath(rootPath, suffix) ==
  IF rootPath # "" THEN rootPath \o "." \o suffix ELSE suffix

\* The keys of the global sections, in the order _.forOwn visits them.
GlobalSections == <<"Parameters", "Metadata", "Mappings", "Conditions", "Transform", "Outputs">>

\* for (const k in sub) / _.toPairs(sub): the own enumerable entries of a
\* value.  An array's are its indices; a scalar has none.
EntriesOf(v) ==
  CASE IsMap(v) -> v.kv
    [] IsSeq(v) -> [i \in 1..Len(v.items) |-> <<ToString(i - 1), v.items[i]>>]
    [] IsTag(v) -> << <<"data", v.data>> >>
    [] OTHER -> <<>>

\* The key a value is turned into when it is used as a property name.
ToKey(v) == IF IsUndef(v) THEN "undefined" ELSE ToText(v)

RECURSIVE FromPairs(_, _, _)
\* _.fromPairs: a later pair overwrites an earlier one with the same key.
FromPairs(pairs, i, res) ==
  IF i > Len(pairs) THEN res
  ELSE FromPairs(pairs, i + 1, Put(res, pairs[i][1], pairs[i][2]))

\* _liftKVPairs
liftKVPairs(objects) ==
  LET es == EntriesOf(objects)
  IN FromPairs([i \in 1..Len(es) |-> <<ToKey(Get(es[i][2], "key")), Get(es[i][2], "value")>>],
               1, EmptyMap)

\* _flatten: [].concat.apply([], arrs).  Each array among the elements is
\* spliced in, any other element is kept as it is; a value that is no array
\* has no elements to pass.
RECURSIVE ConcatAll(_, _)
ConcatAll(items, i) ==
  IF i > Len(items) THEN <<>>
  ELSE (IF IsSeq(items[i]) THEN items[i].items ELSE <<items[i]>>) \o ConcatAll(items, i + 1)

flatten(arrs) ==
  CASE IsSeq(arrs) -> List(ConcatAll(arrs.items, 1))
    [] IsStr(arrs) -> Err("TypeError: CreateListFromArrayLike called on non-object")
    [] OTHER -> List(<<>>)

lookupInEnv(key, path, env) ==
  IF ~IsStr(key) THEN Err("Invalid lookup key at " \o path)
  ELSE IF IsUndef(Get(env, key.s))
       THEN Err("Could not find \"" \o key.s \o "\" at " \o path \o "}")
       ELSE Get(env, key.s)

RECURSIVE Dump(_)
RECURSIVE DumpEntries(_, _, _)
\* yaml.dump: the text of a document, in flow style.
Dump(v) ==
  CASE IsMap(v) -> "{" \o DumpEntries(v.kv, 1, TRUE) \o "}"
    [] IsSeq(v) -> "[" \o DumpEntries([i \in 1..Len(v.items) |-> <<"", v.items[i]>>], 1, FALSE) \o "]"
    [] IsTag(v) -> "!" \o v.tag \o " " \o Dump(v.data)
    [] OTHER -> ToText(v)

DumpEntries(kv, i, keyed) ==
  IF i > Len(kv) THEN ""
  ELSE (IF keyed THEN kv[i][1] \o ": " ELSE "") \o Dump(kv[i][2])
       \o (IF i < Len(kv) THEN ", " ELSE "") \o DumpEntries(kv, i + 1, keyed)

\* tv4.validateResult(value, schema).valid for the keyword "type".
Tv4Valid(value, schema) ==
  LET ty == Get(schema, "type")
  IN IF ~IsStr(ty) THEN TRUE
     ELSE CASE ty.s = "string" -> value.t = "str"
            [] ty.s = "number" -> value.t = "num"
            [] ty.s = "boolean" -> value.t = "bool"
            [] ty.s = "array" -> value.t = "seq"
            [] ty.s = "object" -> value.t = "map"
            [] OTHER -> TRUE

\* paramValue.match(new RegExp(pattern)) for a pattern of literal text with
\* an optional leading ^ and trailing $.
RegExpMatch(s, pattern) ==
  LET anchoredL == StartsWith(pattern, "^")
      anchoredR == EndsWith(pattern, "$")
      lit == SubSeq(pattern, (IF anchoredL THEN 2 ELSE 1),
                    (IF anchoredR THEN Len(pattern) - 1 ELSE Len(pattern)))
  IN CASE anchoredL /\ anchoredR -> s = lit
       [] anchoredL -> StartsWith(s, lit)
       [] anchoredR -> EndsWith(s, lit)
       [] OTHER -> IndexOf(s, lit) > -1

\* _.includes(array, value): SameValueZero, so only a scalar can be found.
IncludesValue(arr, v) ==
  IsSeq(arr) /\ v.t \in {"str", "num", "bool"} /\ \E i \in 1..Len(arr.items) : arr.items[i] = v


RECURSIVE visitNode(_, _, _, _)
RECURSIVE visitMapKV(_, _, _, _, _, _)
RECURSIVE visitArrayFrom(_, _, _, _, _, _)
RECURSIVE visitResourcePairs(_, _, _, _, _, _)
RECURSIVE visitYamlTagNode(_, _, _, _)
RECURSIVE visitImportedDoc(_, _, _, _)
RECURSIVE paramDefaultsFrom(_, _, _, _, _, _, _)
RECURSIVE hoistSections(_, _, _, _, _)
RECURSIVE mapItemsFrom(_, _, _, _, _, _, _, _)

RECURSIVE SpliceSub(_, _, _, _)
\* The inner loop of visitMapNode's $merge branch: res[k2] = sub[k2] unless
\* res has k2 already.
SpliceSub(res, entries, i, path) ==
  IF i > Len(entries) THEN res
  ELSE IF HasKey(res, entries[i][1])
       THEN Err("Key \"" \o entries[i][1] \o "\" is already present and cannot be $merge'd into path \""
                \o path \o "\"")
       ELSE SpliceSub(Put(res, entries[i][1], entries[i][2]), entries, i + 1, path)

\* The keys visitMapNode drops.
DroppedKeys == <<"$envValues", "$imports", "$params", "$location">>

\* visitMapNode's loop from the i-th entry of the node, res being the result
\* so far.
visitMapKV(kv, path, env, i, res, g) ==
  IF i > Len(kv) THEN R(res, g)
  ELSE LET k == kv[i][1]
       IN IF IndexOf(k, "$merge") = 0
          THEN Then(visitNode(kv[i][2], appendPath(path, k), env, g),
                    LAMBDA sub :
                      ThenValue(SpliceSub(res, EntriesOf(sub.v), 1, path), sub.g,
                                LAMBDA res2 : visitMapKV(kv, path, env, i + 1, res2, sub.g)))
          ELSE IF Includes(DroppedKeys, k)
          THEN visitMapKV(kv, path, env, i + 1, res, g)
          ELSE Then(visitNode(kv[i][2], appendPath(path, k), env, g),
                    LAMBDA r : visitMapKV(kv, path, env, i + 1, Put(res, k, r.v), r.g))

visitMapNode(node, path, env, g) == visitMapKV(node.kv, path, env, 1, EmptyMap, g)

visitArrayFrom(items, path, env, i, acc, g) ==
  IF i > Len(items) THEN R(List(acc), g)
  ELSE Then(visitNode(items[i], appendPath(path, ToString(i - 1)), env, g),
            LAMBDA r : visitArrayFrom(items, path, env, i + 1, Append(acc, r.v), r.g))

visitArray(node, path, env, g) == visitArrayFrom(node.items, path, env, 1, <<>>, g)

visitStringNode(node, path, env) ==
  IF HasMustache(node.s) THEN interpolateHandlebarsString(node.s, env, path) ELSE node

visitImportedDoc(node, path, env, g) ==
  LET envValues == Get(node, "$envValues")
      nonTemplates == Map(SelectSeq(EntriesOf(envValues), LAMBDA p : ~HasKey(p[2], "$params")))
      templates == Map(SelectSeq(EntriesOf(envValues), LAMBDA p : HasKey(p[2], "$params")))
  IN Then(visitNode(nonTemplates, path, envValues, g),
          LAMBDA pv : visitMapNode(node, path, Merge3(EmptyMap, pv.v, templates), pv.g))

\* The $paramDefaults of an expansion: the pairs [Name, evaluated Default]
\* of the parameters whose Default evaluates to a value.
paramDefaultsFrom(params, name, path, env, i, acc, g) ==
  IF i > Len(params) THEN R(FromPairs(acc, 1, EmptyMap), g)
  ELSE LET pname == ToKey(Get(params[i], "Name"))
       IN Then(visitNode(Get(params[i], "Default"),
                         appendPath(path, name \o ".$params." \o pname), env, g),
               LAMBDA r :
                 paramDefaultsFrom(params, name, path, env, i + 1,
                                   IF IsUndef(r.v) THEN acc ELSE Append(acc, <<pname, r.v>>), r.g))

RECURSIVE validateParamsEveryCheck(_, _, _, _)
\* The validation with AllowedValues applied whether or not a Schema is
\* present.
validateParamsEveryCheck(params, mergedParams, name, i) ==
  IF i > Len(params) THEN Undef
  ELSE LET param == params[i]
           pname == ToKey(Get(param, "Name"))
           paramValue == Get(mergedParams, pname)
       IN IF IsUndef(paramValue)
          THEN Err("Missing required parameter " \o pname \o " in " \o name)
          ELSE IF Truthy(Get(param, "AllowedValues"))
                  /\ ~IncludesValue(Get(param, "AllowedValues"), paramValue)
          THEN Err("Parameter validation error for \"" \o pname \o "\" in " \o name \o ".")
          ELSE validateParamsEveryCheck(params, mergedParams, name, i + 1)

RECURSIVE validateParams(_, _, _, _)
\* The _.forEach over template.$params in visitResourceNode: the first
\* parameter that fails throws; Undef when none does.
validateParams(params, mergedParams, name, i) ==
  IF i > Len(params) THEN Undef
  ELSE LET param == params[i]
           pname == ToKey(Get(param, "Name"))
           paramValue == Get(mergedParams, pname)
           schema == Get(param, "Schema")
           next == validateParams(params, mergedParams, name, i + 1)
       IN IF IsUndef(paramValue)
          THEN Err("Missing required parameter " \o pname \o " in " \o name)
          ELSE IF Truthy(schema)
          THEN IF ~IsObject(schema)
               THEN Err("Invalid schema \"" \o pname \o "\" in " \o name \o ".")
               ELSE IF ~Tv4Valid(paramValue, schema)
               THEN Err("Parameter validation error for \"" \o pname \o "\" in " \o name \o ".")
               ELSE next
          ELSE IF Truthy(Get(param, "AllowedValues"))
          THEN IF ~IncludesValue(Get(param, "AllowedValues"), paramValue)
               THEN Err("Parameter validation error for \"" \o pname \o "\" in " \o name \o ".")
               ELSE next
          ELSE IF Truthy(Get(param, "AllowedPattern"))
          THEN IF ~(IsStr(paramValue) /\ RegExpMatch(paramValue.s, ToText(Get(param, "AllowedPattern"))))
               THEN Err("Invalid value \"" \o pname \o "\" in " \o name \o ". AllowedPattern: "
                        \o ToText(Get(param, "AllowedPattern")) \o ".")
               ELSE next
          ELSE next

\* The pairs [prefix + k, v] of a value's entries.
PrefixPairs(prefix, v) ==
  LET es == EntriesOf(v) IN [i \in 1..Len(es) |-> <<prefix \o es[i][1], es[i][2]>>]

\* mapCustomResourceToGlobalSections, from the i-th global section on.
hoistSections(resourceDoc, path, env, i, g) ==
  IF i > Len(GlobalSections) THEN R(Undef, g)
  ELSE LET section == GlobalSections[i]
       IN IF ~Truthy(Get(resourceDoc, section))
          THEN hoistSections(resourceDoc, path, env, i + 1, g)
          ELSE Then(visitNode(Get(resourceDoc, section), appendPath(path, section), env, g),
                    LAMBDA r :
                      hoistSections(resourceDoc, path, env, i + 1,
                         \* _.merge mutates the accumulator's section in place;
                         \* there is nothing to mutate when it has none
                         IF HasKey(r.g, section)
                         THEN Put(r.g, section,
                                  MergeInto(Get(r.g, section),
                                            FromPairs(PrefixPairs(ToKey(Get(env, "Prefix")), r.v), 1, EmptyMap)))
                         ELSE r.g))

mapCustomResourceToGlobalSections(resourceDoc, path, env, g) ==
  hoistSections(resourceDoc, path, env, 1, g)


\* The branch of visitResourceNode for a resource whose Type names a value
\* of the environment: the pairs [Prefix + resname, resource] it returns.
expandTemplate(name, resource, template, path, env, g) ==
  LET prefix == IF IsUndef(Get(resource, "NamePrefix")) THEN Str(name)
                ELSE Get(resource, "NamePrefix")
      prefixBinding == Map(<< <<"Prefix", prefix>> >>)
      tplEnv == Get(template, "$envValues")
      params == EntriesOf(Get(template, "$params"))
      paramSeq == [i \in 1..Len(params) |-> params[i][2]]
  IN Then(visitNode(Get(resource, "Overrides"), appendPath(path, name \o ".Overrides"), env, g),
      LAMBDA ov :
      Then(paramDefaultsFrom(paramSeq, name, path, MergeInto(prefixBinding, tplEnv), 1, <<>>, ov.g),
      LAMBDA pd :
      Then(visitNode(Get(resource, "Properties"), appendPath(path, name \o ".Properties"),
                     env, pd.g),
      LAMBDA pp :
      ThenValue(validateParams(paramSeq, Merge3(EmptyMap, pd.v, pp.v), name, 1), pp.g,
      LAMBDA valid :
      Then(visitNode(Get(Merge3(EmptyMap, template, ov.v), "Resources"),
                     appendPath(path, name \o ".Resources"),
                     Merge4(prefixBinding, pd.v, pp.v, tplEnv), pp.g),
      LAMBDA outputResources :
      Then(mapCustomResourceToGlobalSections(Merge3(EmptyMap, template, ov.v), path,
                                             Merge4(prefixBinding, pd.v, pp.v, tplEnv),
                                             outputResources.g),
      LAMBDA h :
        R(List(PrefixPairs(ToKey(Get(Merge4(prefixBinding, pd.v, pp.v, tplEnv), "Prefix")),
                           outputResources.v)),
          h.g)))))))

\* visitResourceNode's _.map over the [name, resource] pairs from the i-th
\* on; acc is the flattened list of output pairs so far.
visitResourcePairs(pairs, path, env, i, acc, g) ==
  IF i > Len(pairs) THEN R(FromPairs(acc, 1, EmptyMap), g)
  ELSE LET name == pairs[i][1]
           resource == pairs[i][2]
           type == Get(resource, "Type")
           template == IF IsStr(type) THEN Get(env, type.s) ELSE Undef
       IN IF Truthy(template)
          THEN Then(expandTemplate(name, resource, template, path, env, g),
                    LAMBDA r : visitResourcePairs(pairs, path, env, i + 1, acc \o r.v.items, r.g))
          ELSE IF IsStr(type) /\ Truthy(type)
                  /\ (IndexOf(type.s, "AWS") = 0 \/ IndexOf(type.s, "Custom") = 0)
          THEN Then(visitNode(resource, appendPath(path, name), env, g),
                    LAMBDA r : visitResourcePairs(pairs, path, env, i + 1,
                                                  Append(acc, <<name, r.v>>), r.g))
          ELSE R(Err("Invalid resource type: " \o ToKey(type) \o " at " \o path), g)

visitResourceNode(node, path, env, g) ==
  visitResourcePairs(EntriesOf(node), path, env, 1, <<>>, g)

visitExpand(node, path, env, g) ==
  IF ~(IsMap(node.data) /\ KeySet(node.data) = {"params", "template"})
  THEN R(Err("Invalid arguments to $expand"), g)
  ELSE ThenValue(lookupInEnv(Get(node.data, "template"), path, env), g,
                 LAMBDA found :
                   \* template = _.clone(...); delete template.$params
                   visitNode(IF IsMap(found) THEN Del(found, "$params") ELSE found, path,
                             Merge3(EmptyMap, Get(node.data, "params"), env), g))

\* The Ref branch with the AWS: test left out.
visitRefAlwaysPrefixed(node, env) ==
  Tag("Ref", Str((IF Truthy(Get(env, "Prefix")) THEN ToText(Get(env, "Prefix")) ELSE "")
                 \o ToKey(node.data)))

\* The Ref branch of visitYamlTagNode.
visitRef(node, env) ==
  IF IsStr(node.data) /\ StartsWith(node.data.s, "AWS:") THEN node
  ELSE Tag("Ref", Str((IF Truthy(Get(env, "Prefix")) THEN ToText(Get(env, "Prefix")) ELSE "")
                      \o ToKey(node.data)))

\* The _.map of the $map branch from the i-th entry of items on.
mapItemsFrom(entries, isArray, varName, template, path, env, i, accg) ==
  IF i > Len(entries) THEN accg
  ELSE LET subPath == appendPath(path, entries[i][1])
           idx == IF isArray THEN Num(i - 1) ELSE Str(entries[i][1])
       IN Then(visitNode(entries[i][2], subPath, env, accg.g),
           LAMBDA item :
           Then(visitNode(template, subPath,
                          MergeInto(Map(<< <<varName, item.v>>, <<varName \o "Idx", idx>> >>), env),
                          item.g),
           LAMBDA r :
             mapItemsFrom(entries, isArray, varName, template, path, env, i + 1,
                          R(List(Append(accg.v.items, r.v)), r.g))))

visitYamlTagNode(node, path, env, g) ==
  CASE node.tag = "$include" ->
         IF ~IsStr(node.data) THEN R(Err("TypeError: node.data.indexOf is not a function"), g)
         ELSE IF IndexOf(node.data.s, ".") > -1
         THEN LET parts == Split(node.data.s, ".")
                  key == Head(parts)
                  lookupRes == GetPath(Get(env, key), Tail(parts))
              IN IF ~HasKey(env, key)
                 THEN R(Err("Could not find \"" \o key \o "\" at " \o path), g)
                 ELSE IF IsUndef(lookupRes)
                 THEN R(Err("Could not find path in " \o key \o " at " \o path), g)
                 ELSE visitNode(lookupRes, path, env, g)
         ELSE ThenValue(lookupInEnv(node.data, path, env), g,
                        LAMBDA found : visitNode(found, path, env, g))
    [] node.tag = "$expand" -> visitExpand(node, path, env, g)
    [] node.tag = "$escape" -> R(node.data, g)
    [] node.tag = "$string" ->
         LET stringSource == IF IsSeq(node.data) /\ Len(node.data.items) = 1
                             THEN node.data.items[1] ELSE node.data
         IN Then(visitNode(stringSource, path, env, g), LAMBDA r : R(Str(Dump(r.v)), r.g))
    [] node.tag = "$parseYaml" ->
         Then(visitNode(node.data, path, env, g),
              LAMBDA r : ThenValue(ParseData(ToText(r.v)), r.g,
                                   LAMBDA parsed : visitNode(parsed, path, env, r.g)))
    [] node.tag = "$let" ->
         LET bindings == IF IsMap(node.data) THEN Del(node.data, "in") ELSE EmptyMap
         IN Then(visitNode(bindings, path, env, g),
                 LAMBDA r : visitNode(Get(node.data, "in"), path, Merge3(EmptyMap, env, r.v), r.g))
    [] node.tag = "$map" ->
         LET items == Get(node.data, "items")
             varName == IF Truthy(Get(node.data, "var")) THEN ToKey(Get(node.data, "var")) ELSE "item"
         IN Then(mapItemsFrom(EntriesOf(items), IsSeq(items), varName,
                              Get(node.data, "template"), path, env, 1, R(List(<<>>), g)),
                 LAMBDA mapped : visitNode(mapped.v, path, env, mapped.g))
    [] node.tag = "$flatten" ->
         \* the guard !_.isArray(data) && _.every(data, _.isArray); the
         \* elements of a text are its characters
         IF /\ ~IsSeq(node.data)
            /\ IF IsStr(node.data) THEN node.data.s = ""
               ELSE \A i \in 1..Len(EntriesOf(node.data)) : IsSeq(EntriesOf(node.data)[i][2])
         THEN R(Err("Invalid argument to $flatten at \"" \o path \o "\". Must be array of arrays."), g)
         ELSE ThenValue(flatten(node.data), g, LAMBDA flat : visitNode(flat, path, env, g))
    [] node.tag = "$concatMap" ->
         Then(visitNode(Tag("$map", node.data), path, env, g), LAMBDA r : R(flatten(r.v), r.g))
    [] node.tag = "$mapListToHash" ->
         Then(visitNode(Tag("$map", node.data), path, env, g),
              LAMBDA r : R(liftKVPairs(r.v), r.g))
    [] node.tag = "$fromPairs" -> visitNode(liftKVPairs(node.data), path, env, g)
    [] node.tag = "Ref" -> R(visitRef(node, env), g)
    [] OTHER ->
         Then(visitNode(node.data, path, env, g), LAMBDA r : R(Tag(node.tag, r.v), r.g))

\* visitNode without its test for templates.
visitNodeNoTemplateTest(node, path, env, g) ==
  LET currNode == Last(Split(path, "."))
  IN IF currNode = "Resources" /\ IndexOf(path, "Overrides") = -1
     THEN visitResourceNode(node, path, env, g)
     ELSE IF currNode = "$envValues"
     THEN R(Err("Shouldn't be able to reach here: " \o path), g)
     ELSE IF IsTag(node) THEN visitYamlTagNode(node, path, env, g)
     ELSE IF IsSeq(node) THEN visitArray(node, path, env, g)
     ELSE IF IsMap(node)
     THEN IF Truthy(Get(node, "$envValues"))
          THEN visitImportedDoc(node, path, env, g)
          ELSE visitMapNode(node, path, env, g)
     ELSE IF node.t = "date" /\ Includes(<<"Version", "AWSTemplateFormatVersion">>, currNode)
     THEN R(Str(Split(node.iso, "T")[1]), g)
     ELSE IF IsStr(node) THEN R(visitStringNode(node, path, env), g)
     ELSE R(node, g)

visitNode(node, path, env, g) ==
  LET currNode == Last(Split(path, "."))
  IN IF currNode = "Resources" /\ IndexOf(path, "Overrides") = -1
     THEN visitResourceNode(node, path, env, g)
     ELSE IF currNode = "$envValues"
     THEN R(Err("Shouldn't be able to reach here: " \o path), g)
     ELSE IF IsTag(node) THEN visitYamlTagNode(node, path, env, g)
     ELSE IF IsSeq(node) THEN visitArray(node, path, env, g)
     ELSE IF IsMap(node)
     THEN IF Truthy(Get(node, "$params"))
          THEN R(Err("Templates should be called via !$expand or as CFN resource types: " \o path), g)
          ELSE IF Truthy(Get(node, "$envValues"))
          THEN visitImportedDoc(node, path, env, g)
          ELSE visitMapNode(node, path, env, g)
     ELSE IF node.t = "date" /\ Includes(<<"Version", "AWSTemplateFormatVersion">>, currNode)
     THEN R(Str(Split(node.iso, "T")[1]), g)
     ELSE IF IsStr(node) THEN R(visitStringNode(node, path, env), g)
     ELSE R(node, g)


\* ---------------------------------------------------- transformPostImports

\* os.hostname() and os.userInfo().username
Hostname == "host"
Username == "user"

\* An ImportRecord as loadImports pushes it.
\* An ImportRecord whose digest is taken of the location, not of the data.
ImportRecordOfLocation(asKey, baseLocation, importData) ==
  [from |-> baseLocation, imported |-> importData.resolvedLocation,
   sha256Digest |-> sha256Digest(importData.resolvedLocation), key |-> asKey]

ImportRecord(asKey, baseLocation, importData) ==
  [from |-> baseLocation, imported |-> importData.resolvedLocation,
   sha256Digest |-> sha256Digest(importData.data), key |-> asKey]

\* The ImportRecord array as a document value.
ImportsDoc(accum) ==
  List([i \in 1..Len(accum) |->
         Map(<< <<"from", Str(accum[i].from)>>, <<"imported", Str(accum[i].imported)>>,
                <<"sha256Digest", Str(accum[i].sha256Digest)>>, <<"key", Str(accum[i].key)>> >>)])

\* _.extend(object, source)
Extend(object, source) == FromPairs(EntriesOf(source), 1, object)

\* _.isEmpty
IsEmpty(v) == Len(EntriesOf(v)) = 0

RECURSIVE mergeGlobalSectionsByAssignment(_, _, _)
\* The _.forOwn over GlobalSections assigning the accumulated section in place
\* of merging it.
mergeGlobalSectionsByAssignment(output, globalAccum, i) ==
  IF i > Len(GlobalSections) THEN output
  ELSE LET sectionName == GlobalSections[i]
       IN mergeGlobalSectionsByAssignment(
            IF ~IsEmpty(Get(globalAccum, sectionName))
            THEN Put(output, sectionName, Get(globalAccum, sectionName))
            ELSE output,
            globalAccum, i + 1)

RECURSIVE mergeGlobalSections(_, _, _)
\* The _.forOwn over GlobalSections at the end of transformPostImports.
mergeGlobalSections(output, globalAccum, i) ==
  IF i > Len(GlobalSections) THEN output
  ELSE LET sectionName == GlobalSections[i]
       IN mergeGlobalSections(
            IF ~IsEmpty(Get(globalAccum, sectionName))
            THEN Put(output, sectionName,
                     Merge3(EmptyMap, Get(output, sectionName), Get(globalAccum, sectionName)))
            ELSE output,
            globalAccum, i + 1)

\* The test with root.Resources left out.
IsCFNDocByVersionOnly(root) == Truthy(Get(root, "AWSTemplateFormatVersion"))

\* The root counts as a CloudFormation document.
IsCFNDoc(root) == Truthy(Get(root, "AWSTemplateFormatVersion")) \/ Truthy(Get(root, "Resources"))

\* The global accumulator with an import log left empty.
InitialAccumulatorNoImports(root, accumulatedImports) ==
  LET meta == Map(<< <<"Metadata", Map(<< <<"iidy",
                  Map(<< <<"Host", Str(Hostname)>>,
                         <<"Imports", List(<<>>)>>,
                         <<"User", Str(Username)>> >>)>> >>)>> >>)
  IN IF IsCFNDoc(root)
     THEN Extend(meta, Map(<< <<"Parameters", EmptyMap>>, <<"Conditions", EmptyMap>>,
                              <<"Mappings", EmptyMap>>, <<"Outputs", EmptyMap>> >>))
     ELSE meta

\* The global accumulator transformPostImports starts the walk with.
InitialAccumulator(root, accumulatedImports) ==
  LET meta == Map(<< <<"Metadata", Map(<< <<"iidy",
                  Map(<< <<"Host", Str(Hostname)>>,
                         <<"Imports", ImportsDoc(accumulatedImports)>>,
                         <<"User", Str(Username)>> >>)>> >>)>> >>)
  IN IF IsCFNDoc(root)
     THEN Extend(meta, Map(<< <<"Parameters", EmptyMap>>, <<"Conditions", EmptyMap>>,
                              <<"Mappings", EmptyMap>>, <<"Outputs", EmptyMap>> >>))
     ELSE meta

\* delete output.$imports; delete output.$defs; delete output.$envValues
DeleteRootMetaKeys(output) == Del(Del(Del(output, "$imports"), "$defs"), "$envValues")

\* The end of transformPostImports: the global sections are merged into the
\* output of a CloudFormation document, and the root's meta keys deleted.
finishOutput(root, output, globalAccum) ==
  DeleteRootMetaKeys(IF IsCFNDoc(root) THEN mergeGlobalSections(output, globalAccum, 1)
                     ELSE output)

\* transformPostImports from the return of the walk on: r is what visitNode
\* made of the root.
extendOutput(root, seedOutput, r) ==
  IF IsErr(r.v) THEN r.v ELSE finishOutput(root, Extend(seedOutput, r.v), r.g)

\* The output document, or the Err the walk threw.
transformPostImports(root, rootDocLocation, accumulatedImports) ==
  extendOutput(root,
               IF IsCFNDoc(root)
               THEN Map(<< <<"AWSTemplateFormatVersion", Str("2010-09-09")>> >>)
               ELSE EmptyMap,
               visitNode(root, "Root",
                         IF Truthy(Get(root, "$envValues")) THEN Get(root, "$envValues") ELSE EmptyMap,
                         InitialAccumulator(root, accumulatedImports)))

\* -------------------------------------------------------------- loadImports

\* The entry of loadImports(doc, baseLocation): doc.$envValues = {} and the
\* check that $imports is a mapping.  The frame holds the loop's position;
\* asKey is the name the caller bound doc to.
EnterLoadImports(doc, baseLocation, asKey) ==
  LET imports == Get(doc, "$imports")
  IN IF Truthy(imports) /\ ~IsMap(imports)
     THEN Err("Invalid imports in " \o baseLocation)
     ELSE [t |-> "frame", doc |-> Put(doc, "$envValues", EmptyMap), base |-> baseLocation,
           keys |-> (IF Truthy(imports) THEN KeysOf(imports) ELSE <<>>), idx |-> 1,
           asKey |-> asKey]

\* The location interpolated against the $defs as well as the $envValues.
ImportLocationSeeingDefs(frame) ==
  LET asKey == frame.keys[frame.idx]
      loc == Get(Get(frame.doc, "$imports"), asKey)
  IN IF ~IsStr(loc) THEN Err("TypeError: loc.search is not a function")
     ELSE IF HasMustache(loc.s)
     THEN interpolateHandlebarsString(loc.s,
                                      Merge3(EmptyMap, Get(frame.doc, "$defs"),
                                             Get(frame.doc, "$envValues")),
                                      frame.base \o ": " \o asKey)
     ELSE loc

\* The location the loader is called with for the frame's next import: the
\* $imports entry, interpolated against the $envValues bound so far.
ImportLocation(frame) ==
  LET asKey == frame.keys[frame.idx]
      loc == Get(Get(frame.doc, "$imports"), asKey)
  IN IF ~IsStr(loc) THEN Err("TypeError: loc.search is not a function")
     ELSE IF HasMustache(loc.s)
     THEN interpolateHandlebarsString(loc.s, Get(frame.doc, "$envValues"),
                                      frame.base \o ": " \o asKey)
     ELSE loc

\* importData.doc.$location = loc, when the doc is an object
StampLocation(doc, loc) == IF IsMap(doc) THEN Put(doc, "$location", Str(loc)) ELSE doc

\* _.includes(doc.$envValues, asKey): asKey is among the VALUES bound so far
DuplicateImport(envValues, asKey) ==
  \E i \in 1..Len(envValues.kv) : envValues.kv[i][2] = Str(asKey)

\* importData.doc.$imports || importData.doc.$defs
HasOwnScope(doc) == Truthy(Get(doc, "$imports")) \/ Truthy(Get(doc, "$defs"))

\* doc.$envValues[k] = v
Bind(doc, k, v) == Put(doc, "$envValues", Put(Get(doc, "$envValues"), k, v))

RECURSIVE BindDefsUnchecked(_, _, _, _)
\* The loop over doc.$defs without its collision test.
BindDefsUnchecked(doc, defs, i, baseLocation) ==
  IF i > Len(defs) THEN doc
  ELSE BindDefsUnchecked(Bind(doc, defs[i][1], defs[i][2]), defs, i + 1, baseLocation)

RECURSIVE BindDefs(_, _, _, _)
\* The loop over doc.$defs.
BindDefs(doc, defs, i, baseLocation) ==
  IF i > Len(defs) THEN doc
  ELSE IF HasKey(Get(doc, "$envValues"), defs[i][1])
       THEN Err("\"" \o defs[i][1] \o "\" in $defs collides with the same name in $imports of "
                \o baseLocation)
       ELSE BindDefs(Bind(doc, defs[i][1], defs[i][2]), defs, i + 1, baseLocation)

\* The loop over doc.$params: Undef, or the Err of the first clash.
CheckParams(doc, baseLocation) ==
  LET params == Get(doc, "$params")
      clash == {i \in 1..Len(EntriesOf(params)) :
                  HasKey(Get(doc, "$envValues"), ToKey(Get(EntriesOf(params)[i][2], "Name")))}
  IN IF ~Truthy(params) THEN Undef
     ELSE IF ~IsSeq(params) THEN Err("TypeError: doc.$params is not iterable")
     ELSE IF clash = {} THEN Undef
     ELSE Err("\"" \o ToKey(Get(params.items[Min(clash)], "Name"))
              \o "\" in $params collides with a name in $imports or $defs of " \o baseLocation)

\* What loadImports does after its loop over $imports: the doc with its
\* $defs bound, or the Err it throws.
FinishLoadImports(doc, baseLocation) ==
  LET bound == IF Truthy(Get(doc, "$defs"))
               THEN BindDefs(doc, EntriesOf(Get(doc, "$defs")), 1, baseLocation)
               ELSE doc
  IN IF IsErr(bound) THEN bound
     ELSE IF IsErr(CheckParams(bound, baseLocation)) THEN CheckParams(bound, baseLocation)
     ELSE bound


\* ----------------------------------------------------------- the inputs

\* Shorthands for writing documents.
M1(k, v) == Map(<< <<k, v>> >>)
M2(k1, v1, k2, v2) == Map(<< <<k1, v1>>, <<k2, v2>> >>)
M3(k1, v1, k2, v2, k3, v3) == Map(<< <<k1, v1>>, <<k2, v2>>, <<k3, v3>> >>)

RootLocation == "/r/root.yaml"
S3RootLocation == "s3://bkt/d/root.yaml"
HttpRootLocation == "http://h/d/root.yaml"

\* The root documents of the end-to-end scenarios S1..S5 of the spec.
ScenarioRoots ==
  << M2("$defs", M1("name", Str("world")), "Message", Str("hello {{name}}")),
     M2("$defs", M1("cfg", M1("a", M1("b", Num(42)))), "X", Tag("$include", Str("cfg.a.b"))),
     M2("$defs", M1("xs", List(<<Num(1), Num(2), Num(3)>>)),
        "Ys", Tag("$map", M2("items", Tag("$include", Str("xs")), "template", Str("{{item}}!")))),
     M1("Ys", Tag("$map", M2("items", List(<<Num(1), Num(2)>>), "template", Str("{{item}}!")))),
     M2("$imports", M1("T", Str("t.yaml")),
        "Resources", M1("foo", M3("Type", Str("T"), "NamePrefix", Str("Pre"),
                                  "Properties", M1("N", Str("hi"))))),
     M2("$imports", M1("T", Str("t.yaml")),
        "Resources", M2("foo", M2("Type", Str("T"), "Properties", M1("N", Str("hi"))),
                        "Plain", M2("Type", Str("AWS::Y"), "Properties", M1("To", Tag("Ref", Str("foo")))))),
     M2("$imports", M1("T", Str("tv.yaml")),
        "Resources", M1("foo", M3("Type", Str("T"), "NamePrefix", Str("Pre"),
                                  "Properties", M1("N", Str("c"))))),
     M2("$imports", M1("T", Str("tv.yaml")),
        "Resources", M1("foo", M2("Type", Str("T"), "Properties", M2("N", Str("a"), "M", Str("m"))))) >>

\* Roots that import documents and include them.
ImportRoots ==
  << M3("$imports", M1("a", Str("a.yaml")), "$defs", M1("x", Str("rootx")),
        "Out", Tag("$include", Str("a"))),
     M3("$imports", M1("a", Str("a.yaml")), "$defs", M1("x", Str("rootx")),
        "Out", Tag("$include", Str("a.sub"))),
     M3("$imports", M1("p", Str("plain.yaml")), "$defs", M1("x", Str("rootx")),
        "Out", Tag("$include", Str("p"))),
     M2("$imports", M1("p", Str("plain.yaml")), "Out", Tag("$include", Str("p"))),
     M2("$imports", M2("b", Str("b.yaml"), "d", Str("data.json")),
        "Out", Tag("$include", Str("b.fromA"))),
     M2("$imports", M3("stage", Str("env:STAGE"), "lit", Str("literal:dev"), "br", Str("git:branch")),
        "Out", Str("{{stage}}-{{lit}}-{{br}}")),
     M2("$imports", M2("n", Str("note.txt"), "dup", Str("data.json")), "Out", Str("{{n}}")),
     M2("$imports", M1("r", Str("random:int")), "Out", Str("{{r}}")),
     M2("$imports", M1("Outer", Str("outer.yaml")),
        "Resources", M1("app", M1("Type", Str("Outer")))),
     M2("$imports", M1("T", Str("t.yaml")), "X", Tag("$include", Str("T"))),
     M2("$imports", M1("T", Str("t.yaml")), "X", Tag("$include", Str("T.Outputs"))),
     M2("$imports", M1("T", Str("t.yaml")),
        "X", Tag("$expand", M2("template", Str("T"), "params", M1("N", Str("v"))))),
     M2("$imports", M1("me", Str("self.yaml")), "k", Num(1)),
     M2("$imports", M1("gone", Str("missing.yaml")), "k", Num(1)),
     M2("$imports", M2("stage", Str("env:STAGE"), "cfg", Str("{{stage}}.yaml")),
        "Out", Tag("$include", Str("cfg.k"))),
     M1("$imports", M2("cfg", Str("{{stage}}.yaml"), "stage", Str("env:STAGE"))),
     M2("$defs", M1("s", Str("data")), "$imports", M1("cfg", Str("{{s}}.json"))),
     M3("$imports", M1("G", Str("g.yaml")),
        "Resources", M1("foo", M1("Type", Str("G"))),
        "Outputs", M2("fooO", M1("Value", Str("root")), "Mine", M1("Value", Num(2)))),
     M2("$imports", M1("G", Str("g.yaml")),
        "Resources", M1("foo", M2("Type", Str("G"), "NamePrefix", Str("")))) >>

\* Roots whose names clash, or are templates themselves.
ClashRoots ==
  << M2("$imports", M1("a", Str("a.yaml")), "$defs", M1("a", Num(1))),
     M2("$defs", M1("N", Num(1)), "$params", List(<<M1("Name", Str("N"))>>)),
     M2("$imports", M1("N", Str("data.json")), "$params", List(<<M1("Name", Str("N"))>>)),
     M1("$params", List(<<M1("Name", Str("N")), M1("Name", Str("N"))>>)),
     M3("$imports", M1("d", Str("data.json")), "$defs", M1("x", Num(1)),
        "$params", List(<<M1("Name", Str("N"))>>)),
     M2("$defs", M1("T", DocT),
        "Resources", M1("foo", M2("Type", Str("T"), "Properties", M1("N", Str("hi"))))) >>

\* Roots with $escape, Ref and pass-through tags.
TagRoots ==
  << M1("X", Tag("$escape", Str("a {{b}}"))),
     M1("X", Tag("$escape", M2("$defs", M1("q", Num(1)), "k", Num(2)))),
     M1("X", Tag("$escape", M2("$params", List(<<>>), "k", Num(1)))),
     M2("A", Tag("Ref", Str("Foo")), "B", Tag("Ref", Str("AWS::Region"))),
     M2("AWSTemplateFormatVersion", Str("2010-09-09"),
        "Resources", M1("r", M2("Type", Str("AWS::X"),
                                "Properties", M1("Att", Tag("GetAtt", Str("r.Arn")))))),
     M2("A", M1("$defs", M1("deep", Num(1))), "B", M1("$location", Str("here"))),
     M1("$merge1", M1("Resources", M1("r", M1("Type", Str("AWS::X"))))),
     M1("X", Tag("$escape", Tag("$include", Str("gone")))),
     M2("$defs", M1("b", Str("{{c}}")), "X", Tag("$escape", Str("a {{b}}"))) >>

\* Roots of plain data: no $imports, no $defs, no templates, no tags.
PlainRoots ==
  << M2("A", Str("x"), "B", M2("C", Num(1), "D", List(<<Str("y"), Bool(TRUE)>>))),
     M2("AWSTemplateFormatVersion", Str("2010-09-09"),
        "Resources", M1("r", M2("Type", Str("AWS::X"), "Properties", M1("V", Num(1))))),
     M1("Resources", M1("r", M1("Type", Str("Custom::C")))),
     M1("AWSTemplateFormatVersion", Str("2010-09-09")),
     M2("Description", Str("d"), "Outputs", M1("O", M1("Value", Str("v")))),
     M1("Notes", List(<<Num(0), M1("k", Str(""))>>)),
     M2("Metadata", M1("Owner", Str("me")),
        "Resources", M1("r", M2("Type", Str("AWS::X"), "$location", Str("here")))),
     M1("Note", Str("see {{b}}")),
     M1("Resources", M1("r", M1("Type", Str("Other::T")))),
     M1("AWSTemplateFormatVersion", Date("2010-09-09T00:00:00.000Z")),
     M2("$mergeMore", M1("a", Num(1)), "b", Num(2)),
     EmptyMap >>

\* Roots read from a remote location.
RemoteRoots ==
  << M2("$imports", M1("a", Str("a.yaml")), "Out", Tag("$include", Str("a.v"))),
     M2("$imports", M1("d", Str("s3://bkt/d/data.json")), "Out", Tag("$include", Str("d.name"))),
     M2("$imports", M1("e", Str("env:HOME")), "k", Num(1)),
     M2("$imports", M1("f", Str("file:a.yaml")), "k", Num(1)),
     M2("$imports", M1("l", Str("literal:x")), "Out", Str("{{l}}")) >>

HttpRoots ==
  << M2("$imports", M1("p", Str("http://h/d/plain.yaml")), "Out", Tag("$include", Str("p.k"))),
     M2("$imports", M1("p", Str("plain.yaml")), "k", Num(1)),
     M2("$imports", M1("e", Str("env:HOME")), "k", Num(1)) >>

\* Roots that set AWSTemplateFormatVersion, or Metadata.iidy, themselves.
VersionRoots ==
  << M1("AWSTemplateFormatVersion", Str("2012-01-01")),
     M1("AWSTemplateFormatVersion", Str("")),
     M3("$imports", M1("d", Str("data.json")),
        "AWSTemplateFormatVersion", Str("2010-09-09"),
        "Out", Tag("$include", Str("d.name"))),
     M2("$imports", M1("d", Str("data.json")),
        "AWSTemplateFormatVersion", Date("2010-09-09T00:00:00.000Z")),
     M2("AWSTemplateFormatVersion", Str("2010-09-09"),
        "Metadata", M1("iidy", M1("Imports", List(<<Str("mine")>>)))) >>

At(loc, docs) == {[doc |-> docs[i], loc |-> loc] : i \in 1..Len(docs)}

\* The calls transform(root0, rootDocLocation) the model runs.
Inputs ==
  At(RootLocation, ScenarioRoots) \cup At(RootLocation, ImportRoots)
  \cup At(RootLocation, ClashRoots) \cup At(RootLocation, TagRoots)
  \cup At(RootLocation, PlainRoots) \cup At(RootLocation, VersionRoots)
  \cup At(S3RootLocation, RemoteRoots) \cup At(HttpRootLocation, HttpRoots)

\* What the name generator and Math.random may return to a random: import.
RandomPool == {"7", "999"}


\* ------------------------------------------------------- the state machine

VARIABLES
  pc,                  \* where the call of transform stands
  root0,               \* transform's argument
  rootDocLocation,     \* transform's argument
  root,                \* the clone of root0, once loadImports has returned
  stack,               \* the active calls of loadImports, innermost last
  accumulatedImports,  \* the ImportRecord log
  loaderCalls,         \* history: every call of the import loader, in order
  completed,           \* history: the docs on which loadImports returned
  result,              \* what transform returned, or the Err it threw
  pass,                \* 1, or 2 when the input is the first call's output
  firstRoot,           \* the argument of the first call, in pass 2
  firstResult,         \* the output of the first call, in pass 2
  probe                \* the argument and result of a function applied alone

vars == <<pc, root0, rootDocLocation, root, stack, accumulatedImports, loaderCalls,
          completed, result, pass, firstRoot, firstResult, probe>>

NoProbe == [op |-> "none"]

Init ==
  /\ \E input \in Inputs : root0 = input.doc /\ rootDocLocation = input.loc
  /\ pc = "init"
  /\ root = Undef
  /\ stack = <<>>
  /\ accumulatedImports = <<>>
  /\ loaderCalls = <<>>
  /\ completed = <<>>
  /\ result = Undef
  /\ pass = 1
  /\ firstRoot = Undef
  /\ firstResult = Undef
  /\ probe = NoProbe

Top == stack[Len(stack)]

\* One pass of the loop of loadImports over $imports, in the frame `top`,
\* ends in an outcome: what it called the loader with, what it pushed on the
\* log, and how it ended: by throwing (err), by going to the next entry
\* (frame), or by calling loadImports on the imported doc (frame and child).
NoOutcome == [err |-> Undef, called |-> FALSE, pushed |-> FALSE, recurse |-> FALSE]

\* The pass from the duplicate check on: record has been pushed, doc is the
\* imported doc with its $location, child the frame loadImports would enter
\* on it.
LoadBound(top, asKey, call, record, doc, child) ==
  LET pushed == [err |-> Undef, called |-> TRUE, call |-> call, pushed |-> TRUE,
                 record |-> record, recurse |-> FALSE]
      frame == [top EXCEPT !.doc = Bind(top.doc, asKey, doc), !.idx = top.idx + 1]
  IN IF DuplicateImport(Get(top.doc, "$envValues"), asKey)
     THEN [pushed EXCEPT !.err = Err("Duplicate import name " \o asKey \o " in " \o top.base)]
     ELSE IF ~HasOwnScope(doc)
     THEN [err |-> Undef, called |-> TRUE, call |-> call, pushed |-> TRUE,
           record |-> record, recurse |-> FALSE, frame |-> frame]
     ELSE IF IsErr(child) THEN [pushed EXCEPT !.err = child]
     ELSE [err |-> Undef, called |-> TRUE, call |-> call, pushed |-> TRUE,
           record |-> record, recurse |-> TRUE, frame |-> frame, child |-> child]

\* The pass from the return of the loader on.
LoadRead(top, asKey, loc, importData) ==
  IF IsErr(importData)
  THEN [err |-> importData, called |-> TRUE,
        call |-> [key |-> asKey, location |-> loc, baseLocation |-> top.base,
                  returned |-> importData],
        pushed |-> FALSE, recurse |-> FALSE]
  ELSE LoadBound(top, asKey,
                 [key |-> asKey, location |-> loc, baseLocation |-> top.base,
                  returned |-> importData],
                 ImportRecord(asKey, top.base, importData),
                 StampLocation(importData.doc, loc),
                 EnterLoadImports(StampLocation(importData.doc, loc),
                                  importData.resolvedLocation, asKey))

\* The pass from the interpolation of the location on.
LoadAt(top, loc, rnd) ==
  IF IsErr(loc) THEN [NoOutcome EXCEPT !.err = loc]
  ELSE LoadRead(top, top.keys[top.idx], loc.s, readFromImportLocation(loc.s, top.base, rnd))

LoadOne(top, rnd) == LoadAt(top, ImportLocation(top), rnd)

\* transform is called: the root is cloned and loadImports entered on it.
Begin ==
  /\ pc = "init"
  /\ LET f == EnterLoadImports(root0, rootDocLocation, "")
     IN IF IsErr(f)
        THEN pc' = "failed" /\ result' = f /\ stack' = <<>>
        ELSE pc' = "loading" /\ result' = Undef /\ stack' = <<f>>
  /\ accumulatedImports' = <<>>
  /\ loaderCalls' = <<>>
  /\ completed' = <<>>
  /\ root' = Undef
  /\ UNCHANGED <<root0, rootDocLocation, pass, firstRoot, firstResult, probe>>

\* What a pass with outcome o leaves: the loader call and the record on
\* their logs; the failure, or the frame moved on with the imported doc's own
\* frame above it.
Outcome(o) ==
  /\ o.recurse => Len(stack) < MaxDepth
  /\ loaderCalls' = IF o.called THEN Append(loaderCalls, o.call) ELSE loaderCalls
  /\ accumulatedImports' =
       IF o.pushed THEN Append(accumulatedImports, o.record) ELSE accumulatedImports
  /\ IF IsErr(o.err)
     THEN pc' = "failed" /\ result' = o.err /\ stack' = <<>>
     ELSE /\ pc' = "loading"
          /\ result' = result
          /\ stack' = SubSeq(stack, 1, Len(stack) - 1) \o <<o.frame>>
                      \o (IF o.recurse THEN <<o.child>> ELSE <<>>)

\* The innermost loadImports handles its next $imports entry.
LoadStep ==
  /\ pc = "loading"
  /\ Top.idx <= Len(Top.keys)
  /\ \E rnd \in RandomPool : Outcome(LoadOne(Top, rnd))
  /\ UNCHANGED <<root0, rootDocLocation, root, completed, pass, firstRoot, firstResult, probe>>

\* loadImports returns: d is the doc as it leaves it, or what it threw.  The
\* caller binds the doc under its import name; the outermost call hands the
\* root to transformPostImports.
Return(d) ==
  IF IsErr(d)
  THEN pc' = "failed" /\ result' = d /\ stack' = <<>> /\ UNCHANGED <<root, completed>>
  ELSE /\ completed' = Append(completed, d)
       /\ result' = result
       /\ IF Len(stack) = 1
          THEN pc' = "loaded" /\ root' = d /\ stack' = <<>>
          ELSE /\ pc' = "loading"
               /\ root' = root
               /\ stack' = SubSeq(stack, 1, Len(stack) - 2)
                           \o <<[stack[Len(stack) - 1] EXCEPT
                                  !.doc = Bind(stack[Len(stack) - 1].doc, Top.asKey, d)]>>

\* The innermost loadImports is past its $imports: it binds $defs, checks
\* $params and returns to its caller.
FinishFrame ==
  /\ pc = "loading"
  /\ Top.idx > Len(Top.keys)
  /\ Return(FinishLoadImports(Top.doc, Top.base))
  /\ UNCHANGED <<root0, rootDocLocation, accumulatedImports, loaderCalls, pass, firstRoot, firstResult, probe>>

\* transform calls transformPostImports and returns its result.
PostImports ==
  /\ pc = "loaded"
  /\ result' = transformPostImports(root, rootDocLocation, accumulatedImports)
  /\ pc' = IF IsErr(result') THEN "failed" ELSE "done"
  /\ UNCHANGED <<root0, rootDocLocation, root, stack, accumulatedImports, loaderCalls,
                 completed, pass, firstRoot, firstResult, probe>>

\* The caller feeds the output of a first call back to transform.
TransformAgain ==
  /\ pc = "done"
  /\ pass = 1
  /\ pc' = "init"
  /\ pass' = 2
  /\ root0' = result
  /\ firstRoot' = root0
  /\ firstResult' = result
  /\ result' = Undef
  /\ root' = Undef
  /\ accumulatedImports' = <<>>
  /\ loaderCalls' = <<>>
  /\ completed' = <<>>
  /\ UNCHANGED <<rootDocLocation, stack, probe>>

Next == Begin \/ LoadStep \/ FinishFrame \/ PostImports \/ TransformAgain

Spec == Init /\ [][Next]_vars


\* ------------------------------------------- parseImportType, called alone

\* Child locations: without a scheme, with each kind of scheme, in either
\* case, and with a scheme that is no import type.
ParseLocations ==
  {"a.yaml", "d/a.yaml", "file:a.yaml", "FILE:a.yaml", "env:HOME", "Env:HOME",
   "s3://bkt/k.yaml", "http://h/x.yaml", "https://h/x.yaml", "literal:x",
   "git:branch", "random:int", "ssm:/p", "bogus:x"}

\* Base locations: local paths, remote ones in either case, and ones whose
\* scheme is neither s3 nor http.
ParseBases ==
  {"/r/root.yaml", "root.yaml", "s3://bkt/d/root.yaml", "S3://bkt/root.yaml",
   "http://h/d/root.yaml", "HTTP://h/root.yaml", "https://h/root.yaml", "file:/r/root.yaml"}

Idle ==
  /\ root0 = Undef
  /\ rootDocLocation = ""
  /\ root = Undef
  /\ stack = <<>>
  /\ accumulatedImports = <<>>
  /\ loaderCalls = <<>>
  /\ completed = <<>>
  /\ result = Undef
  /\ pass = 1
  /\ firstRoot = Undef
  /\ firstResult = Undef

InitParse ==
  /\ pc = "probe"
  /\ Idle
  /\ probe \in {[op |-> "parseImportType", location |-> l, baseLocation |-> b,
                 done |-> FALSE, out |-> Undef] : l \in ParseLocations, b \in ParseBases}

CallParseImportType ==
  /\ probe.op = "parseImportType"
  /\ ~probe.done
  /\ probe' = [probe EXCEPT !.done = TRUE,
                            !.out = parseImportType(probe.location, probe.baseLocation)]
  /\ UNCHANGED <<pc, root0, rootDocLocation, root, stack, accumulatedImports, loaderCalls,
                 completed, result, pass, firstRoot, firstResult>>

NextParse == CallParseImportType

SpecParse == InitParse /\ [][NextParse]_vars

\* ------------------------------------------------- visitNode, called alone

\* The $envValues a node is evaluated in: none bound, a Prefix bound (as
\* inside a template expansion), an empty Prefix, and bindings without Prefix.
EvalEnvs ==
  {EmptyMap,
   M1("Prefix", Str("Pre")),
   M1("Prefix", Str("")),
   M2("Prefix", Str("app"), "x", Str("vx")),
   M1("x", Str("vx")),
   M2("x", Str("vx"), "T", DocT)}

EvalNodes ==
  {Tag("Ref", Str("Foo")),
   Tag("Ref", Str("AWS::Region")),
   Tag("Ref", Str("AWS:")),
   Tag("Ref", Str("aws::region")),
   Tag("Ref", Str("")),
   Tag("Ref", Num(3)),
   Tag("GetAtt", Str("Foo.Arn")),
   Str("plain"),
   Str("v={{x}}"),
   DocT,
   M2("$params", List(<<>>), "k", Num(1)),
   M2("$params", Str(""), "k", Num(1)),
   M2("a", Tag("Ref", Str("Foo")), "b", List(<<Tag("Ref", Str("AWS::StackName"))>>)),
   Tag("$include", Str("T")),
   Tag("$include", Str("T.Outputs")),
   Tag("$include", Str("T.Resources.R.Properties")),
   Tag("$include", Str("x")),
   M1("k", Tag("$escape", M1("$params", List(<<>>)))),
   Tag("$escape", DocT),
   Tag("$expand", M2("template", Str("T"), "params", M1("N", Str("n")))),
   List(<<DocT>>)}

EvalPaths == {"Root", "Root.X", "Root.Resources"}

\* A template with the parameters `params` and one resource R that shows the
\* parameter N; `tail` is what follows N in R's text.
ParamTemplate(params, tail) ==
  M2("$params", List(params),
     "Resources", M1("R", M2("Type", Str("AWS::X"),
                             "Properties", M1("V", Str("{{N}}" \o tail)))))

\* The ways a template declares its parameter N, alone or before a second
\* parameter M.
ParamLists ==
  LET N(k, v) == M2("Name", Str("N"), k, v)
      N2(k1, v1, k2, v2) == M3("Name", Str("N"), k1, v1, k2, v2)
      allowed == List(<<Str("a"), Str("b")>>)
  IN { <<M1("Name", Str("N"))>>,
       <<N("Default", Str("a"))>>,
       <<N("AllowedValues", allowed)>>,
       <<N2("Default", Str("c"), "AllowedValues", allowed)>>,
       <<N2("Schema", M1("type", Str("string")), "AllowedValues", allowed)>>,
       <<N2("Schema", M1("type", Str("number")), "AllowedPattern", Str("^z"))>>,
       <<N2("Schema", Str("string"), "AllowedValues", allowed)>>,
       <<N2("Schema", Str(""), "AllowedValues", allowed)>>,
       <<N("AllowedPattern", Str("^a"))>>,
       <<N2("AllowedValues", allowed, "AllowedPattern", Str("^z"))>>,
       <<N("AllowedValues", List(<<>>))>>,
       <<N("AllowedValues", allowed), M1("Name", Str("M"))>>,
       <<M1("Name", Str("M")), N("AllowedValues", allowed)>> }

\* The Properties a resource entry provides; Undef when it has none.
ParamProperties ==
  {Undef, EmptyMap, M1("N", Str("a")), M1("N", Str("c")), M1("N", Num(1)),
   M1("N", Str("ab")), M2("N", Str("b"), "M", Str("m"))}

\* The resource entry foo of Type T, with the Properties given.
Entry(type, properties) ==
  M1("foo", IF IsUndef(properties) THEN M1("Type", Str(type))
            ELSE M2("Type", Str(type), "Properties", properties))

\* Evaluations beyond the grid: <<node, path, env>>.
EvalCases ==
  {<<Entry("T", props), "Root.Resources", M1("T", ParamTemplate(params, tail))>> :
     props \in ParamProperties, params \in ParamLists, tail \in {"", "{{nowhere}}"}}
  \cup
  \* a template U expanded where the caller binds x, and U itself may bind N
  {<<Entry("U", props), "Root.Resources",
     M2("U", IF own THEN Put(ParamTemplate(<<M2("Name", Str("N"), "Default", default)>>, tail),
                             "$envValues", M1("N", Str("own")))
             ELSE ParamTemplate(<<M2("Name", Str("N"), "Default", default)>>, tail),
        "x", Str("vx"))>> :
     props \in {Undef, M1("N", Str("b")), M1("N", List(<<Str("z")>>)), M1("N", M1("p", Num(1)))},
     default \in {Str("a"), List(<<Str("a"), Str("b")>>), M1("q", Num(2))},
     tail \in {"", "{{x}}", "{{Prefix}}"},
     own \in BOOLEAN}
  \cup
  \* $map over items given in place or included, where the caller may bind
  \* the loop's names already
  {<<Tag("$map", IF var = "" THEN M2("items", items, "template", template)
                 ELSE M3("items", items, "template", template, "var", Str(var))),
     "Root.X", MergeInto(M2("xs", List(<<Num(1), Num(2), Num(3)>>), "k", Str("vk")), outer)>> :
     var \in {"", "v"},
     items \in {List(<<Num(1), Num(2)>>), Tag("$include", Str("xs")),
                List(<<Str("a"), Tag("$include", Str("k")), Str("{{k}}")>>), List(<<>>)},
     template \in {Str("{{item}}!"), Str("{{itemIdx}}:{{item}}"), Str("{{v}}!"),
                   M1("at", Str("{{vIdx}}"))},
     outer \in {EmptyMap, M1("item", Str("outer")), M1("itemIdx", Num(9)), M1("v", Str("outer"))}}
  \cup
  \* mappings of two or three entries, plain and $merge-prefixed
  {<<Map(kv), "Root.X", M2("k", Str("vk"), "m", M2("b", Num(1), "d", Num(2)))>> :
     kv \in {q \in UNION {[1..n -> {<<"a", Num(1)>>, <<"b", Str("{{k}}")>>,
                                     <<"$merge", M1("a", Num(2))>>,
                                     <<"$merge1", M2("a", Str("{{k}}"), "c", Num(3))>>,
                                     <<"$merge2", Tag("$include", Str("m"))>>,
                                     <<"$location", Str("l")>>}] : n \in 2..3} :
               \A i, j \in DOMAIN q : i # j => q[i][1] # q[j][1]}}
  \cup
  \* $flatten of sequences, of other payloads, and of tagged elements
  {<<Tag("$flatten", payload), "Root.X",
     M3("k", Str("vk"), "xs", List(<<Num(1), Num(2)>>),
        "xss", List(<<List(<<Num(1)>>), List(<<Num(2)>>)>>))>> :
     payload \in {List(<<List(<<Num(1)>>), List(<<Num(2), Num(3)>>)>>),
                  List(<<>>),
                  List(<<List(<<>>), List(<<Str("{{k}}")>>)>>),
                  List(<<List(<<List(<<Num(1)>>)>>), List(<<Num(2)>>)>>),
                  List(<<Tag("$include", Str("xs")), List(<<Num(3)>>)>>),
                  List(<<Num(1), List(<<Num(2)>>)>>),
                  List(<<Str("{{k}}")>>),
                  M1("a", List(<<Num(1)>>)),
                  M1("a", Num(1)),
                  Tag("$include", Str("xss")),
                  Str("ab"), Str(""), Num(3), EmptyMap}}

InitEval ==
  /\ pc = "probe"
  /\ Idle
  /\ probe \in {[op |-> "visitNode", node |-> c[1], path |-> c[2], env |-> c[3],
                 done |-> FALSE, out |-> Undef] :
                c \in (EvalNodes \X EvalPaths \X EvalEnvs) \cup EvalCases}

CallVisitNode ==
  /\ probe.op = "visitNode"
  /\ ~probe.done
  /\ probe' = [probe EXCEPT !.done = TRUE,
                            !.out = visitNode(probe.node, probe.path, probe.env,
                                              InitialAccumulator(EmptyMap, <<>>)).v]
  /\ UNCHANGED <<pc, root0, rootDocLocation, root, stack, accumulatedImports, loaderCalls,
                 completed, result, pass, firstRoot, firstResult>>

NextEval == CallVisitNode

SpecEval == InitEval /\ [][NextEval]_vars


\* ---------------------------------------------------------------- claims

MetaKeys == {"$imports", "$defs", "$envValues", "$params", "$location"}

RECURSIVE NoMetaKeys(_)
\* No mapping of v, at any depth, has a meta-key.
NoMetaKeys(v) ==
  CASE IsMap(v) -> \A i \in 1..Len(v.kv) : v.kv[i][1] \notin MetaKeys /\ NoMetaKeys(v.kv[i][2])
    [] IsSeq(v) -> \A i \in 1..Len(v.items) : NoMetaKeys(v.items[i])
    [] IsTag(v) -> NoMetaKeys(v.data)
    [] OTHER -> TRUE

\* The keys of a mapping; none for any other value.
Keys(v) == IF IsMap(v) THEN KeySet(v) ELSE {}

Succeeded == pc = "done" /\ pass = 1

\* C1: after a successful transform no mapping of the output, at any depth,
\* has a key among $imports, $defs, $envValues, $params, $location.
C1_NoMetaKeysInOutput == pc = "done" => NoMetaKeys(result)

\* The names the loaded root binds to imported documents.
ImportedDocNames ==
  {k \in Keys(Get(root, "$imports")) : IsMap(Get(Get(root, "$envValues"), k))}

\* The root keys whose value is !$include of the whole imported document k.
IncludersOf(k) == {K \in Keys(root0) : Get(root0, K) = Tag("$include", Str(k))}

\* An imported document evaluated against its own scope alone: its own
\* $envValues, or no binding at all when it declares no $imports and no $defs.
InOwnScope(doc, path) ==
  visitNode(Put(doc, "$envValues", IF HasKey(doc, "$envValues") THEN Get(doc, "$envValues")
                                   ELSE EmptyMap),
            path, EmptyMap, InitialAccumulator(EmptyMap, <<>>)).v

\* C2: hygiene. What !$include of an imported document puts in the output
\* is that document evaluated against its own $imports/$defs scope, never
\* against the bindings of the including document.
C2_Hygiene ==
  Succeeded =>
    \A k \in ImportedDocNames : \A K \in IncludersOf(k) :
      Get(result, K) = InOwnScope(Get(Get(root, "$envValues"), k), appendPath("Root", K))

\* The Resources entries of the root that expand a template, as pairs
\* <<entry name, prefix P>>: P is NamePrefix if given, else the entry's name.
Expansions ==
  LET rs == Get(root0, "Resources")
  IN {<<n, IF IsUndef(Get(Get(rs, n), "NamePrefix")) THEN n
           ELSE ToText(Get(Get(rs, n), "NamePrefix"))>> :
        n \in {m \in Keys(rs) : IsStr(Get(Get(rs, m), "Type"))
                                   /\ Truthy(Get(Get(root, "$envValues"), Get(Get(rs, m), "Type").s))}}

\* The keys of a section of the output that the root document did not itself
\* write there: those the expansions contributed.
Contributed(section) ==
  Keys(Get(result, section))
    \ ((IF section = "Resources"
        THEN {n \in Keys(Get(root0, section)) : n \notin {e[1] : e \in Expansions}}
        ELSE Keys(Get(root0, section)))
       \cup (IF section = "Metadata" THEN {"iidy"} ELSE {}))

PrefixedSections ==
  {"Resources", "Parameters", "Metadata", "Mappings", "Conditions", "Transform", "Outputs"}

\* C3: every resource name and every global-section key that a template
\* expansion with prefix P contributes to the output starts with P, also
\* when it comes from an expansion nested inside the expanded template.
C3_PrefixOnEveryContribution ==
  Succeeded =>
    \A section \in PrefixedSections : \A k \in Contributed(section) :
      \E e \in Expansions : StartsWith(k, e[2])


\* A Ref node that visitNode hands to visitYamlTagNode: the path does not
\* make it a Resources section.
RefEvaluated ==
  /\ probe.op = "visitNode"
  /\ probe.done
  /\ IsTag(probe.node)
  /\ probe.node.tag = "Ref"
  /\ probe.path \in {"Root", "Root.X"}

\* The payload of a Ref as the text Prefix is joined to.
PayloadText(data) == IF IsStr(data) THEN data.s ELSE ToString(data.n)

\* The Prefix of an environment: the empty string when none is bound.
ActivePrefix(env) ==
  IF \E i \in 1..Len(env.kv) : env.kv[i][1] = "Prefix" THEN Get(env, "Prefix").s ELSE ""

\* C4: a Ref whose payload is a string beginning with AWS: is returned
\* unchanged; any other Ref becomes Ref(Prefix + payload), Prefix being the
\* one bound in the environment and the empty string when none is bound.
C4_RefRewrite ==
  RefEvaluated =>
    IF IsStr(probe.node.data) /\ Len(probe.node.data.s) >= 4
       /\ SubSeq(probe.node.data.s, 1, 4) = "AWS:"
    THEN probe.out = probe.node
    ELSE probe.out = Tag("Ref", Str(ActivePrefix(probe.env) \o PayloadText(probe.node.data)))

C4_Witness ==
  /\ RefEvaluated
  /\ probe.node.data = Str("Foo")
  /\ Get(probe.env, "Prefix") = Str("Pre")
  /\ probe.out = Tag("Ref", Str("PreFoo"))

Parsed == probe.op = "parseImportType" /\ probe.done

RemoteBase(scheme) == StartsWith(ToLowerCase(probe.baseLocation), scheme \o ":")

NoScheme == \A i \in 1..Len(probe.location) : SubSeq(probe.location, i, i) # ":"

\* C5: under a base whose scheme is s3 or http a location without scheme
\* gets the base's scheme and a location whose scheme is file or env is
\* rejected; under any other base a location without scheme is a file.
C5_ParseImportType ==
  Parsed =>
    /\ (RemoteBase("s3") /\ NoScheme) => probe.out = Str("s3")
    /\ (RemoteBase("http") /\ NoScheme) => probe.out = Str("http")
    /\ ((RemoteBase("s3") \/ RemoteBase("http"))
          /\ (StartsWith(ToLowerCase(probe.location), "file:")
                \/ StartsWith(ToLowerCase(probe.location), "env:"))) => IsErr(probe.out)
    /\ (~RemoteBase("s3") /\ ~RemoteBase("http") /\ NoScheme) => probe.out = Str("file")

C5_Witness ==
  /\ Parsed
  /\ probe.baseLocation = "S3://bkt/root.yaml"
  /\ probe.location = "FILE:a.yaml"
  /\ IsErr(probe.out)


\* The names a mapping introduces by $imports, by $defs and by $params.
ImportNames(d) == Keys(Get(d, "$imports"))
DefNames(d) == Keys(Get(d, "$defs"))
ParamNameAt(d, i) == Get(Get(d, "$params").items[i], "Name")
ParamCount(d) == IF IsSeq(Get(d, "$params")) THEN Len(Get(d, "$params").items) ELSE 0
ParamNames(d) == {ParamNameAt(d, i).s : i \in {j \in 1..ParamCount(d) : IsStr(ParamNameAt(d, j))}}

\* No name is introduced by two of the three groups.
DistinctAcrossGroups(d) ==
  /\ ImportNames(d) \cap DefNames(d) = {}
  /\ ParamNames(d) \cap (ImportNames(d) \cup DefNames(d)) = {}

\* No two entries of $params carry the same Name.
DistinctParams(d) ==
  \A i, j \in 1..ParamCount(d) : i # j => ParamNameAt(d, i) # ParamNameAt(d, j)

\* C6 (amended): loadImports fails whenever a $defs name equals an $imports
\* name or a $params Name equals an $imports or $defs name, so on every
\* mapping it completes on, no name is introduced by two of the three groups.
C6_DistinctAcrossGroups ==
  /\ \A i \in 1..Len(completed) : DistinctAcrossGroups(completed[i])
  /\ ~DistinctAcrossGroups(root0) => pc \notin {"loaded", "done"}

\* C6 as stated: the names introduced by $imports, $defs and $params of a
\* mapping loadImports completed on are pairwise distinct.
C6_PairwiseDistinct ==
  \A i \in 1..Len(completed) :
    DistinctAcrossGroups(completed[i]) /\ DistinctParams(completed[i])

C6_Witness ==
  \E i \in 1..Len(completed) :
    /\ ImportNames(completed[i]) # {}
    /\ DefNames(completed[i]) # {}
    /\ ParamNames(completed[i]) # {}

RECURSIVE ImportKeysFrom(_, _)
\* The $imports names of a loaded document in the order of a depth-first
\* walk: a name, then the names under the document it binds, then the next.
ImportKeysFrom(doc, i) ==
  LET keys == IF IsMap(Get(doc, "$imports")) THEN KeysOf(Get(doc, "$imports")) ELSE <<>>
      sub == Get(Get(doc, "$envValues"), keys[i])
  IN IF i > Len(keys) THEN <<>>
     ELSE <<keys[i]>> \o (IF IsMap(sub) THEN ImportKeysFrom(sub, 1) ELSE <<>>)
          \o ImportKeysFrom(doc, i + 1)

\* C7: after a successful transform the log holds one record per call of
\* the loader, in the order of the calls, which is the depth-first order of
\* the imports; each record has the import's name as key, the location of
\* the importing document as from, the loader's resolvedLocation as imported
\* and the digest of the loader's data as sha256Digest.
C7_ImportLog ==
  pc = "done" =>
    /\ Len(accumulatedImports) = Len(loaderCalls)
    /\ [i \in 1..Len(accumulatedImports) |-> accumulatedImports[i].key] = ImportKeysFrom(root, 1)
    /\ \A i \in 1..Len(accumulatedImports) :
         /\ accumulatedImports[i].key = loaderCalls[i].key
         /\ accumulatedImports[i].from = loaderCalls[i].baseLocation
         /\ accumulatedImports[i].from \in
              {rootDocLocation} \cup {accumulatedImports[j].imported : j \in 1..(i - 1)}
         /\ accumulatedImports[i].imported = loaderCalls[i].returned.resolvedLocation
         /\ accumulatedImports[i].sha256Digest = sha256Digest(loaderCalls[i].returned.data)

C7_Witness ==
  /\ pc = "done"
  /\ Len(accumulatedImports) >= 3
  /\ accumulatedImports[2].from # rootDocLocation
  /\ accumulatedImports[3].from = rootDocLocation


Visited == probe.op = "visitNode" /\ probe.done

\* A template: a mapping whose $params is set (a list, empty or not).
IsTemplate(v) == IsMap(v) /\ IsSeq(Get(v, "$params"))

RECURSIVE HasEscape(_)
\* v holds a $escape tag.
HasEscape(v) ==
  CASE IsMap(v) -> \E i \in 1..Len(v.kv) : HasEscape(v.kv[i][2])
    [] IsSeq(v) -> \E i \in 1..Len(v.items) : HasEscape(v.items[i])
    [] IsTag(v) -> v.tag = "$escape" \/ HasEscape(v.data)
    [] OTHER -> FALSE

RECURSIVE HasParamsKey(_)
\* A mapping of v, at any depth, has the key $params.
HasParamsKey(v) ==
  CASE IsMap(v) -> \E i \in 1..Len(v.kv) : v.kv[i][1] = "$params" \/ HasParamsKey(v.kv[i][2])
    [] IsSeq(v) -> \E i \in 1..Len(v.items) : HasParamsKey(v.items[i])
    [] IsTag(v) -> HasParamsKey(v.data)
    [] OTHER -> FALSE

\* The node is !$include of a name of the environment, with a dotted
\* selector (dotted = TRUE) or without one.
IncludeOf(node, dotted) ==
  /\ IsTag(node)
  /\ node.tag = "$include"
  /\ IsStr(node.data)
  /\ dotted = (\E i \in 1..Len(node.data.s) : SubSeq(node.data.s, i, i) = ".")

\* The value the name of an !$include is bound to.
IncludedBinding(node, env) == Get(env, Head(Split(node.data.s, ".")))

\* Evaluation reaches a template directly: the node is one, holds one in a
\* list, or is !$include, without selector, of a name bound to one.
ReachesTemplate(node, env) ==
  \/ IsTemplate(node)
  \/ IsSeq(node) /\ \E i \in 1..Len(node.items) : IsTemplate(node.items[i])
  \/ IncludeOf(node, FALSE) /\ IsTemplate(IncludedBinding(node, env))

\* C8 (amended): evaluation that reaches a mapping with $params, other than
\* through $expand or a Resources entry whose Type names it, fails, and
\* outside a $escape payload no mapping with $params is emitted.
C8_TemplateReachedFails ==
  Visited =>
    /\ ReachesTemplate(probe.node, probe.env) => IsErr(probe.out)
    /\ (~IsErr(probe.out) /\ ~HasEscape(probe.node)) => ~HasParamsKey(probe.out)

\* C8 as stated: no mapping with $params is emitted and no part of a
\* template reaches the output without an expansion, also not through
\* !$include with a dotted selector.
C8_NoTemplatePartEmitted ==
  Visited =>
    /\ ReachesTemplate(probe.node, probe.env) => IsErr(probe.out)
    /\ (IncludeOf(probe.node, TRUE) /\ IsTemplate(IncludedBinding(probe.node, probe.env)))
         => IsErr(probe.out)
    /\ ~IsErr(probe.out) => ~HasParamsKey(probe.out)

C8_Witness ==
  /\ Visited
  /\ probe.node = Tag("$include", Str("T"))
  /\ IsTemplate(Get(probe.env, "T"))
  /\ probe.path = "Root.X"
  /\ IsErr(probe.out)


RECURSIVE Norm(_)
\* A document value with the order of its keys forgotten.
Norm(v) ==
  CASE IsMap(v) -> [t |-> "map", f |-> [k \in KeySet(v) |-> Norm(Get(v, k))]]
    [] IsSeq(v) -> [t |-> "seq", f |-> [i \in 1..Len(v.items) |-> Norm(v.items[i])]]
    [] IsTag(v) -> [t |-> "tag", tag |-> v.tag, f |-> Norm(v.data)]
    [] OTHER -> v

\* Equality of documents up to the order of keys.
SameDoc(a, b) == Norm(a) = Norm(b)

RECURSIVE StripMeta(_)
\* v with the meta-keys of its mappings removed, at every depth.
StripMeta(v) ==
  CASE IsMap(v) -> Map([i \in 1..Len(SelectSeq(v.kv, LAMBDA p : p[1] \notin MetaKeys)) |->
                         <<SelectSeq(v.kv, LAMBDA p : p[1] \notin MetaKeys)[i][1],
                           StripMeta(SelectSeq(v.kv, LAMBDA p : p[1] \notin MetaKeys)[i][2])>>])
    [] IsSeq(v) -> List([i \in 1..Len(v.items) |-> StripMeta(v.items[i])])
    [] OTHER -> v

RECURSIVE Pure(_)
\* v has no $imports, no $defs, no template and no tagged node.
Pure(v) ==
  CASE IsMap(v) -> \A i \in 1..Len(v.kv) :
                     v.kv[i][1] \notin {"$imports", "$defs", "$params"} /\ Pure(v.kv[i][2])
    [] IsSeq(v) -> \A i \in 1..Len(v.items) : Pure(v.items[i])
    [] IsTag(v) -> FALSE
    [] OTHER -> TRUE

\* The tags the walker evaluates away.
MacroTags ==
  {"$include", "$expand", "$escape", "$string", "$parseYaml", "$let", "$map", "$flatten",
   "$concatMap", "$mapListToHash", "$fromPairs"}

RECURSIVE Inert(_, _)
\* Nothing in v, met under key, makes the walker do more than copy: no string
\* with a {{...}} expression, no key beginning with $merge, no macro tag,
\* no Date under a version key, and under a key Resources only a mapping of
\* entries whose Type begins with AWS or Custom.
Inert(v, key) ==
  CASE IsMap(v) ->
         /\ \A i \in 1..Len(v.kv) :
              ~StartsWith(v.kv[i][1], "$merge") /\ Inert(v.kv[i][2], v.kv[i][1])
         /\ key = "Resources" =>
              \A i \in 1..Len(v.kv) :
                /\ IsStr(Get(v.kv[i][2], "Type"))
                /\ StartsWith(Get(v.kv[i][2], "Type").s, "AWS")
                     \/ StartsWith(Get(v.kv[i][2], "Type").s, "Custom")
    [] IsSeq(v) -> key # "Resources" /\ \A i \in 1..Len(v.items) : Inert(v.items[i], "")
    [] IsStr(v) -> key # "Resources" /\ IndexOf(v.s, "{{") = -1
    [] IsTag(v) -> /\ key # "Resources"
                   /\ v.tag \notin MacroTags
                   /\ v.tag = "Ref" \/ Inert(v.data, "")
    [] OTHER -> /\ key # "Resources"
                /\ v.t = "date" => key \notin {"Version", "AWSTemplateFormatVersion"}

\* The root is a CloudFormation document.
RootIsCFN(d) ==
  \E k \in {"AWSTemplateFormatVersion", "Resources"} :
    HasKey(d, k) /\ Get(d, k) \notin {Str(""), Num(0), Bool(FALSE)}

\* What a CloudFormation root gains: the format version unless it sets one,
\* and Metadata.iidy with the host, the user and an empty import log.
WithProvenance(d) ==
  LET versioned == IF HasKey(d, "AWSTemplateFormatVersion") THEN d
                   ELSE Put(d, "AWSTemplateFormatVersion", Str("2010-09-09"))
      metadata == IF HasKey(d, "Metadata") THEN Get(d, "Metadata") ELSE EmptyMap
  IN Put(versioned, "Metadata",
         Merge3(EmptyMap, metadata,
                M1("iidy", M3("Host", Str(Hostname), "Imports", List(<<>>),
                              "User", Str(Username)))))

\* C9 (amended): for a root that has no $imports, $defs, templates or tags
\* and nothing else the walker rewrites, transform succeeds; the result is
\* the root with meta-keys removed and, when the root has
\* AWSTemplateFormatVersion or Resources, with the format version and
\* Metadata.iidy added.
C9_IdentityUpToProvenance ==
  (pass = 1 /\ Pure(root0) /\ Inert(root0, "")) =>
    /\ pc # "failed"
    /\ pc = "done" =>
         SameDoc(result, IF RootIsCFN(root0) THEN WithProvenance(StripMeta(root0))
                         ELSE StripMeta(root0))

\* C9 as stated: for every root that has no $imports, $defs, templates or
\* tags, transform succeeds and returns the root with meta-keys removed.
C9_Identity ==
  (pass = 1 /\ Pure(root0)) =>
    /\ pc # "failed"
    /\ pc = "done" => SameDoc(result, StripMeta(root0))

C9_Witness ==
  /\ Succeeded
  /\ Pure(root0)
  /\ Inert(root0, "")
  /\ HasKey(root0, "Resources")
  /\ ~HasKey(root0, "AWSTemplateFormatVersion")
  /\ HasKey(Get(result, "Metadata"), "iidy")


\* In pass 2 the first call succeeded without leaving a meta-key.
Repeated == pass = 2 /\ NoMetaKeys(firstResult)

\* C10 (amended): when the output o of transform(d) has no meta-key and
\* nothing the walker rewrites, and its root has AWSTemplateFormatVersion or
\* Resources only if the root of d has, transform(o) succeeds and equals o,
\* Metadata.iidy with its import log and the Ref tags included.
C10_IdempotentOnInertOutput ==
  (Repeated /\ Inert(firstResult, "") /\ (RootIsCFN(firstResult) => RootIsCFN(firstRoot))) =>
    /\ pc # "failed"
    /\ pc = "done" => SameDoc(result, firstResult)

\* C10 as stated: whenever the output o of a transform has no meta-key,
\* transform(o) succeeds and equals o.
C10_Idempotent ==
  Repeated =>
    /\ pc # "failed"
    /\ pc = "done" => SameDoc(result, firstResult)

C10_Witness ==
  /\ Repeated
  /\ pc = "done"
  /\ Inert(firstResult, "")
  /\ IsSeq(Get(Get(Get(firstResult, "Metadata"), "iidy"), "Imports"))
  /\ Len(Get(Get(Get(firstResult, "Metadata"), "iidy"), "Imports").items) >= 2
  /\ HasKey(Get(firstResult, "Outputs"), "innerO")


RECURSIVE AnyKey(_, _)
\* Some mapping of v, at any depth, has the key k.
AnyKey(v, k) ==
  CASE IsMap(v) -> HasKey(v, k) \/ \E i \in 1..Len(v.kv) : AnyKey(v.kv[i][2], k)
    [] IsSeq(v) -> \E i \in 1..Len(v.items) : AnyKey(v.items[i], k)
    [] IsTag(v) -> AnyKey(v.data, k)
    [] OTHER -> FALSE

\* The root gives AWSTemplateFormatVersion the value '2010-09-09', as a text
\* or as the date of that day.
StandardVersion(d) ==
  Get(d, "AWSTemplateFormatVersion")
    \in {Str("2010-09-09"), Date("2010-09-09T00:00:00.000Z")}

\* What the output shows of the import log and of the format version.
OutputImports == GetPath(result, <<"Metadata", "iidy", "Imports">>)
OutputVersion == Get(result, "AWSTemplateFormatVersion")

\* C11 (amended): after a successful transform of a root whose
\* AWSTemplateFormatVersion is '2010-09-09' (as a text or as that date),
\* that has no Metadata.iidy of its own and binds no document with a
\* Metadata section, the output's Metadata.iidy.Imports equals the recorded
\* import log and its AWSTemplateFormatVersion equals '2010-09-09'.
C11_ProvenanceOfStandardVersion ==
  (pc = "done" /\ StandardVersion(root0)
     /\ ~HasKey(Get(root0, "Metadata"), "iidy")
     /\ ~AnyKey(Get(root, "$envValues"), "Metadata")) =>
    /\ OutputImports = ImportsDoc(accumulatedImports)
    /\ OutputVersion = Str("2010-09-09")

\* C11 as stated: after a successful transform of a root that contains
\* AWSTemplateFormatVersion, whatever its value, the output's
\* Metadata.iidy.Imports equals the recorded import log and its
\* AWSTemplateFormatVersion equals '2010-09-09'.
C11_Provenance ==
  (pc = "done" /\ HasKey(root0, "AWSTemplateFormatVersion")) =>
    /\ OutputImports = ImportsDoc(accumulatedImports)
    /\ OutputVersion = Str("2010-09-09")

C11_Witness ==
  /\ pc = "done"
  /\ StandardVersion(root0)
  /\ Get(root0, "AWSTemplateFormatVersion").t = "date"
  /\ ~HasKey(Get(root0, "Metadata"), "iidy")
  /\ Len(accumulatedImports) = 1
  /\ OutputImports = ImportsDoc(accumulatedImports)
  /\ OutputVersion = Str("2010-09-09")


\* A resource entry foo has been expanded from the template T of the
\* environment.
Expanded ==
  /\ Visited
  /\ probe.path = "Root.Resources"
  /\ IsMap(probe.node)
  /\ KeysOf(probe.node) = <<"foo">>
  /\ Get(Get(probe.node, "foo"), "Type") = Str("T")
  /\ IsSeq(Get(Get(probe.env, "T"), "$params"))

\* The i-th declared parameter, and the value the expansion has for it: the
\* provided one, else the default.
Declared(i) == Get(Get(probe.env, "T"), "$params").items[i]
DeclaredCount == Len(Get(Get(probe.env, "T"), "$params").items)
Provided == Get(Get(probe.node, "foo"), "Properties")
Given(i) ==
  IF HasKey(Provided, Get(Declared(i), "Name").s)
  THEN Get(Provided, Get(Declared(i), "Name").s)
  ELSE Get(Declared(i), "Default")

\* Which of the three checks is applied to the i-th parameter: the first
\* present, none when none is.
Applied(i) ==
  IF Truthy(Get(Declared(i), "Schema")) THEN "Schema"
  ELSE IF Truthy(Get(Declared(i), "AllowedValues")) THEN "AllowedValues"
  ELSE IF Truthy(Get(Declared(i), "AllowedPattern")) THEN "AllowedPattern"
  ELSE "none"

\* The i-th parameter is rejected.
Rejected(i) ==
  \/ IsUndef(Given(i))
  \/ /\ Applied(i) = "Schema"
     /\ ~(IsObject(Get(Declared(i), "Schema")) /\ Tv4Valid(Given(i), Get(Declared(i), "Schema")))
  \/ /\ Applied(i) = "AllowedValues"
     /\ \A j \in 1..Len(Get(Declared(i), "AllowedValues").items) :
          Get(Declared(i), "AllowedValues").items[j] # Given(i)
  \/ /\ Applied(i) = "AllowedPattern"
     /\ ~(IsStr(Given(i)) /\ RegExpMatch(Given(i).s, Get(Declared(i), "AllowedPattern").s))

FirstRejected == CHOOSE i \in 1..DeclaredCount : Rejected(i) /\ \A j \in 1..(i - 1) : ~Rejected(j)

\* The text in which the template's resource R shows N.
BodyText ==
  GetPath(Get(probe.env, "T"), <<"Resources", "R", "Properties", "V">>).s

\* C12: an expansion fails on the first declared parameter that has no value
\* among the provided Properties and the defaults, or that fails the first
\* present of its Schema, AllowedValues and AllowedPattern, before the
\* template's Resources are evaluated; the message of an AllowedValues
\* failure names the resource entry.  With no parameter rejected the
\* Resources are evaluated with the values given.
C12_ParamValidation ==
  Expanded =>
    IF \E i \in 1..DeclaredCount : Rejected(i)
    THEN /\ IsErr(probe.out)
         /\ IndexOf(probe.out.msg, Get(Declared(FirstRejected), "Name").s) > -1
         /\ EndsWith(probe.out.msg, " in foo") \/ EndsWith(probe.out.msg, " in foo.")
               \/ Applied(FirstRejected) = "AllowedPattern"
         /\ (~IsUndef(Given(FirstRejected)) /\ Applied(FirstRejected) = "AllowedValues")
              => probe.out.msg = "Parameter validation error for \"N\" in foo."
    ELSE IF EndsWith(BodyText, "{{nowhere}}")
    THEN IsErr(probe.out) /\ StartsWith(probe.out.msg, "Error in string template")
    ELSE GetPath(probe.out, <<"fooR", "Properties", "V">>)
           = Str(ToText(Given(CHOOSE i \in 1..DeclaredCount : Get(Declared(i), "Name") = Str("N"))))

\* A template whose Schema is satisfied and whose AllowedValues are violated
\* is expanded.
C12_Witness ==
  /\ Expanded
  /\ Applied(1) = "Schema"
  /\ Truthy(Get(Declared(1), "AllowedValues"))
  /\ Given(1) = Str("c")
  /\ ~IsErr(probe.out)
  /\ GetPath(probe.out, <<"fooR", "Properties", "V">>) = Str("c")


\* The names of the $imports entries before the one the frame f is at, and
\* what they are bound to.
Earlier(f) == {f.keys[j] : j \in 1..(f.idx - 1)}
EarlierBindings(f) ==
  Map(SelectSeq(Get(f.doc, "$envValues").kv, LAMBDA p : p[1] \in Earlier(f)))

\* The location of the entry the frame f is at, as $imports gives it.
RawLocation(f) == Get(Get(f.doc, "$imports"), f.keys[f.idx])

\* The loading of everything nested under the earlier entries of f is over:
\* loadImports has returned on each imported document with imports or
\* definitions of its own.
NestedLoaded(f) ==
  \A k \in Earlier(f) :
    LET d == Get(Get(f.doc, "$envValues"), k)
    IN (IsMap(d) /\ HasKey(d, "$envValues")) \/ ~HasOwnScope(d)

\* The innermost loadImports is at an entry of its $imports.
AtEntry == pc = "loading" /\ Top.idx <= Len(Top.keys) /\ IsStr(RawLocation(Top))

\* C13: a step of loadImports at an entry finds exactly the earlier entries
\* of the same $imports bound, with all loading nested under them over; it
\* calls the loader for this entry, with the location interpolated against
\* those bindings alone, and fails without a call when the location refers
\* to a name that is not among them.
C13_SequentialLoading ==
  [][AtEntry =>
       /\ Keys(Get(Top.doc, "$envValues")) = Earlier(Top)
       /\ NestedLoaded(Top)
       /\ IF RenderTemplate(RawLocation(Top).s, EarlierBindings(Top))[1]
          THEN /\ loaderCalls' = Append(loaderCalls, Last(loaderCalls'))
               /\ Last(loaderCalls').key = Top.keys[Top.idx]
               /\ Last(loaderCalls').baseLocation = Top.base
               /\ Last(loaderCalls').location
                    = RenderTemplate(RawLocation(Top).s, EarlierBindings(Top))[2]
          ELSE pc' = "failed" /\ loaderCalls' = loaderCalls]_vars

\* Two imports were loaded, the second from a location made of the value
\* of the first.
C13_Witness ==
  /\ pc = "done"
  /\ Len(loaderCalls) = 2
  /\ loaderCalls[1].key = "stage"
  /\ loaderCalls[2].key = "cfg"
  /\ loaderCalls[2].location = "dev.yaml"
  /\ Get(result, "Out") = Str("dev")


\* The innermost loadImports is loading a document under that document's
\* own loading: a call below it loads the same imports from the same
\* location.
InCycle ==
  \E i \in 1..(Len(stack) - 1) :
    /\ stack[i].base = Top.base
    /\ Get(stack[i].doc, "$imports") = Get(Top.doc, "$imports")

\* The innermost loadImports is about to call loadImports on the document
\* its next import yields.
RecursesDeeper ==
  /\ pc = "loading"
  /\ Top.idx <= Len(Top.keys)
  /\ \E rnd \in RandomPool : LoadOne(Top, rnd).recurse

\* C14: the recursion over the nested $imports of a document that imports
\* itself is cut off by a depth limit: a loadImports nested MaxDepth deep in
\* the cycle recurses no further, so that the transform ends.
C14_RecursionCutOff ==
  (pc = "loading" /\ Len(stack) = MaxDepth /\ InCycle) => ~RecursesDeeper

\* ------------------------------------------------------------------ C15

\* The template that the root's Resources entry n expands.
TemplateOf(n) ==
  Get(Get(root, "$envValues"), Get(Get(Get(root0, "Resources"), n), "Type").s)

\* The sub-environment of the expansion that the root's Resources entry n
\* makes with prefix p: Prefix, the parameter defaults, the provided
\* Properties and the template's own bindings.
ExpansionEnv(n, p) ==
  LET template == TemplateOf(n)
      params == EntriesOf(Get(template, "$params"))
      prefixBinding == M1("Prefix", Str(p))
  IN Merge4(prefixBinding,
            paramDefaultsFrom([i \in 1..Len(params) |-> params[i][2]], n, "Root.Resources",
                              MergeInto(prefixBinding, Get(template, "$envValues")),
                              1, <<>>, EmptyMap).v,
            visitNode(Get(Get(Get(root0, "Resources"), n), "Properties"),
                      "Root.Resources." \o n \o ".Properties",
                      Get(root, "$envValues"), EmptyMap).v,
            Get(template, "$envValues"))

\* The section of the template of expansion n, evaluated in the expansion's
\* sub-environment.
SectionOf(n, p, section) ==
  visitNode(Get(TemplateOf(n), section), "Root.Resources." \o section,
            ExpansionEnv(n, p), EmptyMap).v

\* C15: for every template expansion in a root document that has Resources,
\* and every global section present in the template, each top-level key k of
\* the section, evaluated in the expansion's sub-environment, is in the output
\* as output[section][prefix + k]; it wins over what the root itself wrote
\* there.
C15_Hoisted ==
  (Succeeded /\ Truthy(Get(root0, "Resources"))) =>
    \A e \in Expansions : \A i \in 1..Len(GlobalSections) :
      Truthy(Get(TemplateOf(e[1]), GlobalSections[i])) =>
        \A k \in Keys(SectionOf(e[1], e[2], GlobalSections[i])) :
          Get(Get(result, GlobalSections[i]), e[2] \o k)
            = Get(SectionOf(e[1], e[2], GlobalSections[i]), k)

\* ------------------------------------------------------------------ C16

\* visitResourceNode has expanded, as the entry foo, the template U that
\* the caller's environment binds.
ExpandedU ==
  /\ probe.op = "visitNode"
  /\ probe.done
  /\ probe.path = "Root.Resources"
  /\ IsMap(probe.node)
  /\ KeysOf(probe.node) = <<"foo">>
  /\ Get(Get(probe.node, "foo"), "Type") = Str("U")

\* The template's default for its parameter N, evaluated in the caller's
\* environment extended with Prefix and the template's own bindings.
DefaultsOfU ==
  M1("N", visitNode(Get(Get(Get(probe.env, "U"), "$params").items[1], "Default"),
                    "Root.Resources.foo.$params.N",
                    Extend(Extend(probe.env, M1("Prefix", Str("foo"))),
                           Get(Get(probe.env, "U"), "$envValues")),
                    EmptyMap).v)

\* The caller's environment overlaid by Prefix, the defaults, the provided
\* Properties and the template's own bindings: each layer replaces the
\* bindings of the same name below it.
OverlaidEnv ==
  Extend(Extend(Extend(Extend(probe.env, M1("Prefix", Str("foo"))),
                       DefaultsOfU),
                Get(Get(probe.node, "foo"), "Properties")),
         Get(Get(probe.env, "U"), "$envValues"))

\* The template's Resources evaluated in the overlaid environment.
BodyInOverlaidEnv ==
  visitNode(Get(Get(probe.env, "U"), "Resources"), "Root.Resources.foo.Resources",
            OverlaidEnv, EmptyMap).v

\* C16: an expansion evaluates the template's Resources in the environment
\* that holds every binding of the caller, overlaid in this order by Prefix,
\* the evaluated parameter defaults, the provided Properties and the
\* template's own $envValues: a name bound only by the caller resolves in the
\* template body, and a provided parameter overrides its default.
C16_SubEnvironment ==
  ExpandedU =>
    IF IsErr(BodyInOverlaidEnv) THEN IsErr(probe.out)
    ELSE probe.out = FromPairs(PrefixPairs("foo", BodyInOverlaidEnv), 1, EmptyMap)

\* The part of C16 about parameters alone: a provided text overrides the
\* default in the template body.
C16_ProvidedOverridesDefault ==
  (ExpandedU /\ ~HasKey(Get(probe.env, "U"), "$envValues")
     /\ Get(Get(probe.node, "foo"), "Properties") = M1("N", List(<<Str("z")>>))
     /\ GetPath(Get(probe.env, "U"), <<"Resources", "R", "Properties", "V">>) = Str("{{N}}")) =>
    GetPath(probe.out, <<"fooR", "Properties", "V">>) = Str("z")

\* ------------------------------------------------------------------ C17

\* visitYamlTagNode has evaluated a $map.
MapEvaluated ==
  /\ probe.op = "visitNode"
  /\ probe.done
  /\ IsTag(probe.node)
  /\ probe.node.tag = "$map"
  /\ probe.path = "Root.X"

\* The loop variable, and the items once evaluated.
MapVar ==
  IF Truthy(Get(probe.node.data, "var")) THEN Get(probe.node.data, "var").s ELSE "item"
MapItems == visitNode(Get(probe.node.data, "items"), probe.path, probe.env, EmptyMap).v

\* The template evaluated with the loop variable bound to the i-th item and
\* {var}Idx to its index, over the caller's bindings.
MapElement(i) ==
  visitNode(Get(probe.node.data, "template"), appendPath(probe.path, ToString(i - 1)),
            Extend(probe.env, M2(MapVar, MapItems.items[i], MapVar \o "Idx", Num(i - 1))),
            EmptyMap).v

\* C17: $map returns one element per item of items, in item order: element i
\* is the template evaluated with var (default item) bound to the evaluated
\* i-th item and {var}Idx to i, also when items is a tagged node such as
\* !$include of a sequence and when the caller's environment already binds
\* var or {var}Idx.
C17_Map ==
  (MapEvaluated /\ IsSeq(MapItems)) =>
    IF \E i \in 1..Len(MapItems.items) : IsErr(MapElement(i))
    THEN IsErr(probe.out)
    ELSE probe.out = List([i \in 1..Len(MapItems.items) |-> MapElement(i)])

\* ------------------------------------------------------------------ C18

\* visitMapNode has evaluated a plain mapping with a $merge-prefixed entry.
MergeEvaluated ==
  /\ probe.op = "visitNode"
  /\ probe.done
  /\ probe.path = "Root.X"
  /\ IsMap(probe.node)
  /\ \E i \in 1..Len(probe.node.kv) : IndexOf(probe.node.kv[i][1], "$merge") = 0

\* The i-th entry of the mapping is $merge-prefixed; it is a plain key that
\* is evaluated; and what its value evaluates to.
IsSplice(i) == IndexOf(probe.node.kv[i][1], "$merge") = 0
IsPlain(i) == ~IsSplice(i) /\ ~Includes(DroppedKeys, probe.node.kv[i][1])
EntryValue(i) ==
  visitNode(probe.node.kv[i][2], appendPath(probe.path, probe.node.kv[i][1]),
            probe.env, EmptyMap).v

\* A key spliced in by the j-th entry is one that an earlier plain key or an
\* earlier $merge has written.
Collides(j) ==
  /\ IsSplice(j)
  /\ \E k2 \in Keys(EntryValue(j)) : \E i \in 1..(j - 1) :
       \/ IsPlain(i) /\ probe.node.kv[i][1] = k2
       \/ IsSplice(i) /\ k2 \in Keys(EntryValue(i))

\* C18: evaluating a plain mapping fails with a merge-conflict error when a
\* key spliced in by a $merge-prefixed entry equals a key already written, by
\* an earlier plain key or an earlier $merge; with no such collision the
\* result holds every spliced key with its evaluated value and every
\* evaluated plain key.
C18_Merge ==
  MergeEvaluated =>
    IF \E j \in 1..Len(probe.node.kv) : Collides(j)
    THEN IsErr(probe.out) /\ IndexOf(probe.out.msg, "is already present and cannot be $merge'd") > -1
    ELSE \A i \in 1..Len(probe.node.kv) :
           /\ IsSplice(i) => \A k2 \in Keys(EntryValue(i)) :
                               Get(probe.out, k2) = Get(EntryValue(i), k2)
           /\ IsPlain(i) => Get(probe.out, probe.node.kv[i][1]) = EntryValue(i)

\* ------------------------------------------------------------------ C19

\* The supported schemes.
SupportedSchemes ==
  {"file", "s3", "http", "ssm", "ssm-path", "env", "git", "random", "filehash", "literal"}

\* C19: parseImportType rejects with an error every location whose explicit
\* scheme is no supported one, whatever the base location is, local or s3 or
\* http; it never returns a value that is no supported scheme.
C19_RejectsUnknownScheme ==
  Parsed =>
    /\ (~NoScheme /\ SchemeOf(probe.location) \notin SupportedSchemes) => IsErr(probe.out)
    /\ ~IsErr(probe.out) => probe.out.s \in SupportedSchemes

\* ------------------------------------------------------------------ C20

\* visitYamlTagNode has evaluated a $flatten.
FlattenEvaluated ==
  /\ probe.op = "visitNode"
  /\ probe.done
  /\ IsTag(probe.node)
  /\ probe.node.tag = "$flatten"

\* What the payload of the $flatten evaluates to, its elements with it.
PayloadValue == visitNode(probe.node.data, probe.path, probe.env, EmptyMap).v

\* C20: $flatten evaluates to the concatenation, one level deep and in
\* order, of the sequences its elements evaluate to, elements given as tagged
\* nodes included; it fails with a 'Must be array of arrays' error when its
\* payload is not a sequence whose every element is a sequence.
C20_Flatten ==
  FlattenEvaluated =>
    IF IsSeq(PayloadValue) /\ \A i \in 1..Len(PayloadValue.items) : IsSeq(PayloadValue.items[i])
    THEN probe.out = List(ConcatAll(PayloadValue.items, 1))
    ELSE IsErr(probe.out) /\ IndexOf(probe.out.msg, "Must be array of arrays") > -1

\* ------------------------------------------------------------------ C21

\* The step raises 'Duplicate import name'.
RaisesDuplicate ==
  /\ pc' = "failed"
  /\ IsErr(result')
  /\ StartsWith(result'.msg, "Duplicate import name ")

\* C21: loadImports raises 'Duplicate import name' for an $imports entry only
\* when the entry's name is already a key of the mapping's $envValues: an
\* import whose name is not yet bound is never rejected as a duplicate,
\* whatever the values the earlier imports were bound to.
C21_DuplicateOnlyWhenBound ==
  [][(AtEntry /\ RaisesDuplicate) =>
       Top.keys[Top.idx] \in Keys(Get(Top.doc, "$envValues"))]_vars

=============================================================================
